---- MODULE Spec2Model ----
(***************************************************************************)
(* Order parsing and ledger persistence of the Preetos order bot           *)
(* (src/order_processor.py, src/bot.py).                                   *)
(*                                                                         *)
(* Text is modelled as a sequence of one-character strings, so that the    *)
(* regular expressions and substring tests of the parser are evaluated     *)
(* character by character as Python's re module evaluates them.  An        *)
(* Optional[...] value is <<>> for None and <<v>> for the value v.         *)
(***************************************************************************)
EXTENDS Integers, Sequences, FiniteSets, TLC

None == <<>>
Some(v) == <<v>>
IsNone(o) == o = <<>>
\* e bound to the name that F takes: LET with the value walked once
Bind(e, F(_)) == F(e)
\* Python truth of an Optional[int] and of an Optional[str]
TruthyInt(o) == o # <<>> /\ o[1] # 0
TruthyText(o) == o # <<>> /\ o[1] # <<>>

(***************************************************************************)
(* Characters and the str methods the parser uses                          *)
(***************************************************************************)
LowerLetters == <<"a", "b", "c", "d", "e", "f", "g", "h", "i", "j", "k", "l", "m", "n", "o", "p", "q", "r", "s", "t", "u", "v", "w", "x", "y", "z">>
UpperLetters == <<"A", "B", "C", "D", "E", "F", "G", "H", "I", "J", "K", "L", "M", "N", "O", "P", "Q", "R", "S", "T", "U", "V", "W", "X", "Y", "Z">>
DigitChars == <<"0", "1", "2", "3", "4", "5", "6", "7", "8", "9">>

DigitSet == {DigitChars[k] : k \in 1..10}
LowerSet == {LowerLetters[k] : k \in 1..26}
UpperSet == {UpperLetters[k] : k \in 1..26}
\* str.lower and str.upper on one character
LowerOf == [c \in UpperSet |-> LowerLetters[CHOOSE k \in 1..26 : UpperLetters[k] = c]]
UpperOf == [c \in LowerSet |-> UpperLetters[CHOOSE k \in 1..26 : LowerLetters[k] = c]]
DigitOf == [c \in DigitSet |-> (CHOOSE k \in 1..10 : DigitChars[k] = c) - 1]

IsDigit(c) == c \in DigitSet
IsSpace(c) == c \in {" ", "\n", "\t"}
IsLower(c) == c \in LowerSet
IsUpper(c) == c \in UpperSet
IsAlpha(c) == IsLower(c) \/ IsUpper(c)
IsNameChar(c) == IsAlpha(c) \/ IsSpace(c)
DigitVal(c) == DigitOf[c]
Lower(c) == IF IsUpper(c) THEN LowerOf[c] ELSE IF c = "A~" THEN "a~" ELSE c
Upper(c) == IF IsLower(c) THEN UpperOf[c] ELSE c
StrLower(s) == [k \in 1..Len(s) |-> Lower(s[k])]
StrUpper(s) == [k \in 1..Len(s) |-> Upper(s[k])]
StrIsDigit(s) == Len(s) > 0 /\ \A k \in 1..Len(s) : IsDigit(s[k])

RECURSIVE ToInt(_)
ToInt(s) == IF s = <<>> THEN 0 ELSE 10 * ToInt(SubSeq(s, 1, Len(s) - 1)) + DigitVal(s[Len(s)])

StrStrip(s) ==
    Bind({k \in 1..Len(s) : ~IsSpace(s[k])}, LAMBDA keep :
        IF keep = {} THEN <<>>
        ELSE SubSeq(s, CHOOSE a \in keep : \A b \in keep : a <= b,
                       CHOOSE a \in keep : \A b \in keep : a >= b))

StrTitle(s) ==
    [k \in 1..Len(s) |-> IF k = 1 \/ ~IsAlpha(s[k - 1]) THEN Upper(s[k]) ELSE Lower(s[k])]

\* lit occurs in s at position i
LitAt(s, i, lit) ==
    /\ i >= 1
    /\ i + Len(lit) - 1 <= Len(s)
    /\ \A k \in 1..Len(lit) : s[i + k - 1] = lit[k]

\* the same under re.IGNORECASE
LitAtI(s, i, lit) ==
    /\ i >= 1
    /\ i + Len(lit) - 1 <= Len(s)
    /\ \A k \in 1..Len(lit) : Lower(s[i + k - 1]) = Lower(lit[k])

\* Python's "kw in s"
Contains(s, kw) == \E i \in 1..Len(s) : LitAt(s, i, kw)
AnyIn(s, kws) == \E kw \in kws : Contains(s, kw)

\* end (first index not consumed) of the greedy runs \d*, \s* and [A-Za-z\s]* at i
DigitsEnd(s, i) ==
    CHOOSE j \in i..(Len(s) + 1) :
        /\ \A k \in i..(j - 1) : IsDigit(s[k])
        /\ (j = Len(s) + 1 \/ ~IsDigit(s[j]))
SpacesEnd(s, i) ==
    CHOOSE j \in i..(Len(s) + 1) :
        /\ \A k \in i..(j - 1) : IsSpace(s[k])
        /\ (j = Len(s) + 1 \/ ~IsSpace(s[j]))
NameEnd(s, i) ==
    CHOOSE j \in i..(Len(s) + 1) :
        /\ \A k \in i..(j - 1) : IsNameChar(s[k])
        /\ (j = Len(s) + 1 \/ ~IsNameChar(s[j]))
Slice(s, i, j) == SubSeq(s, i, j - 1)
MinOf(S) == CHOOSE a \in S : \A b \in S : a <= b
MaxOf(S) == CHOOSE a \in S : \A b \in S : a >= b

(***************************************************************************)
(* Catalog                                                                 *)
(***************************************************************************)
PouchPrice == 150
TubPrice == 290
Product(code, name, size, price) == [code |-> code, name |-> name, size |-> size, price |-> price]

\* the eight codes, in the order of the catalog and of the regex alternation
ProductCodes ==
    << <<"P", "-", "C", "H", "Z">>, <<"P", "-", "S", "C">>, <<"P", "-", "B", "B", "Q">>, <<"P", "-", "O", "G">>,
       <<"2", "L", "-", "C", "H", "Z">>, <<"2", "L", "-", "S", "C">>, <<"2", "L", "-", "B", "B", "Q">>, <<"2", "L", "-", "O", "G">> >>
CodeSet == {ProductCodes[k] : k \in 1..Len(ProductCodes)}

PRODUCTS ==
    [c \in CodeSet |->
        CASE c = <<"P", "-", "C", "H", "Z">>  -> Product(c, "Cheese", "Pouch", PouchPrice)
          [] c = <<"P", "-", "S", "C">>   -> Product(c, "Sour Cream", "Pouch", PouchPrice)
          [] c = <<"P", "-", "B", "B", "Q">>  -> Product(c, "BBQ", "Pouch", PouchPrice)
          [] c = <<"P", "-", "O", "G">>   -> Product(c, "Original Blend", "Pouch", PouchPrice)
          [] c = <<"2", "L", "-", "C", "H", "Z">> -> Product(c, "Cheese", "Tub", TubPrice)
          [] c = <<"2", "L", "-", "S", "C">>  -> Product(c, "Sour Cream", "Tub", TubPrice)
          [] c = <<"2", "L", "-", "B", "B", "Q">> -> Product(c, "BBQ", "Tub", TubPrice)
          [] c = <<"2", "L", "-", "O", "G">>  -> Product(c, "Original Spice Blend", "Tub", TubPrice)]

OrderItem(product, quantity) == [product |-> product, quantity |-> quantity]

RECURSIVE SumItems(_)
SumItems(items) ==
    IF items = <<>> THEN 0
    ELSE Head(items).quantity * Head(items).product.price + SumItems(Tail(items))

(***************************************************************************)
(* _basic_parse: the three item patterns                                   *)
(***************************************************************************)
NoMatch == [ok |-> FALSE]

\* (P-CHZ|P-SC|...|2L-OG) at i under IGNORECASE: length matched, 0 if none
CodeLenAt(s, i) ==
    Bind({k \in 1..Len(ProductCodes) : LitAtI(s, i, ProductCodes[k])}, LAMBDA hit :
        IF hit = {} THEN 0 ELSE Len(ProductCodes[MinOf(hit)]))

\* \s*x?\s* at i: index after it
SepEnd(s, i) ==
    Bind(SpacesEnd(s, i), LAMBDA a :
        SpacesEnd(s, IF a <= Len(s) /\ Lower(s[a]) = "x" THEN a + 1 ELSE a))

\* r'(\d+)\s*x?\s*(CODE)' anchored at i; \d+ is greedy and gives digits back
MatchQtyCode(s, i) ==
    Bind({k \in (i + 1)..DigitsEnd(s, i) : CodeLenAt(s, SepEnd(s, k)) > 0}, LAMBDA good :
        IF i > Len(s) \/ ~IsDigit(s[i]) \/ good = {} THEN NoMatch
        ELSE Bind(MaxOf(good), LAMBDA k :
             Bind(SepEnd(s, k), LAMBDA p :
             Bind(p + CodeLenAt(s, p), LAMBDA e :
                 [ok |-> TRUE, g1 |-> Slice(s, i, k), g2 |-> Slice(s, p, e), end |-> e]))))

\* r'(CODE)\s*x?\s*(\d+)' anchored at i
MatchCodeQty(s, i) ==
    Bind(CodeLenAt(s, i), LAMBDA n :
    Bind(SepEnd(s, i + n), LAMBDA p :
    Bind(DigitsEnd(s, p), LAMBDA e :
        IF n = 0 \/ e = p THEN NoMatch
        ELSE [ok |-> TRUE, g1 |-> Slice(s, i, i + n), g2 |-> Slice(s, p, e), end |-> e])))

FlavorWords == << <<"c", "h", "e", "e", "s", "e">>, <<"s", "o", "u", "r", " ", "c", "r", "e", "a", "m">>, <<"b", "b", "q">>, <<"o", "r", "i", "g", "i", "n", "a", "l">> >>

\* r'(cheese|sour cream|bbq|original).*?(\d+)' anchored at i; . stops at a newline
MatchFlavorQty(s, i) ==
    Bind({k \in 1..Len(FlavorWords) : LitAtI(s, i, FlavorWords[k])}, LAMBDA hit :
        IF hit = {} THEN NoMatch
        ELSE Bind(Len(FlavorWords[MinOf(hit)]), LAMBDA n :
             Bind({q \in (i + n)..Len(s) :
                      /\ IsDigit(s[q])
                      /\ \A k \in (i + n)..(q - 1) : s[k] # "\n"}, LAMBDA ds :
                 IF ds = {} THEN NoMatch
                 ELSE Bind(MinOf(ds), LAMBDA q :
                      Bind(DigitsEnd(s, q), LAMBDA e :
                          [ok |-> TRUE, g1 |-> Slice(s, i, i + n), g2 |-> Slice(s, q, e),
                           end |-> e])))))

ItemPattern(p, s, i) ==
    CASE p = 1 -> MatchQtyCode(s, i)
      [] p = 2 -> MatchCodeQty(s, i)
      [] p = 3 -> MatchFlavorQty(s, i)

\* re.findall(pattern, message, re.IGNORECASE): non-overlapping matches, left to right
RECURSIVE FindAll(_, _, _)
FindAll(p, s, i) ==
    IF i > Len(s) THEN <<>>
    ELSE Bind(ItemPattern(p, s, i), LAMBDA m :
             IF m.ok THEN << <<m.g1, m.g2>> >> \o FindAll(p, s, m.end)
             ELSE FindAll(p, s, i + 1))

\* the body of "for match in matches": the items this match appends
ItemsOfMatch(match) ==
    Bind(StrIsDigit(match[1]), LAMBDA digitFirst :
    Bind(StrIsDigit(match[2]), LAMBDA digitLast :
    Bind(IF digitFirst THEN ToInt(match[1]) ELSE ToInt(match[2]), LAMBDA quantity :
    Bind(IF digitFirst THEN StrUpper(match[2]) ELSE StrUpper(match[1]), LAMBDA product_code :
        IF ~digitFirst /\ ~digitLast THEN <<>>
        ELSE IF product_code \in CodeSet
             THEN <<OrderItem(PRODUCTS[product_code], quantity)>>
             ELSE <<>>))))

RECURSIVE ItemsOfMatches(_)
ItemsOfMatches(matches) ==
    IF matches = <<>> THEN <<>>
    ELSE ItemsOfMatch(Head(matches)) \o ItemsOfMatches(Tail(matches))

BasicItems(message) ==
    ItemsOfMatches(FindAll(1, message, 1))
        \o ItemsOfMatches(FindAll(2, message, 1))
        \o ItemsOfMatches(FindAll(3, message, 1))

(***************************************************************************)
(* _basic_parse: customer name, six patterns tried in order with re.search *)
(***************************************************************************)
\* r'KW\s+([A-Za-z\s]+)' anchored at i ("for", "kay", "from"); sep is the
\* least number of blanks between KW and the group (1 for \s+, 0 for \s*)
MatchKwName(s, i, kw, sep) ==
    Bind(i + Len(kw), LAMBDA a :
    Bind(SpacesEnd(s, a), LAMBDA w :
        IF ~LitAtI(s, i, kw) THEN NoMatch
        ELSE IF w - a >= sep /\ w <= Len(s) /\ IsAlpha(s[w])
             THEN [ok |-> TRUE, name |-> Slice(s, w, NameEnd(s, w))]
        ELSE IF w - a >= sep + 1
             THEN [ok |-> TRUE, name |-> Slice(s, w - 1, NameEnd(s, w - 1))]
        ELSE NoMatch))

\* r'para\s+(sa\s+)?([A-Za-z\s]+)' anchored at i: group 2
MatchParaName(s, i) ==
    Bind(i + 4, LAMBDA a :
    Bind(SpacesEnd(s, a), LAMBDA w :
    Bind(LitAtI(s, w, <<"s", "a">>), LAMBDA sa :
    Bind(SpacesEnd(s, w + 2), LAMBDA w2 :
        IF ~LitAtI(s, i, <<"p", "a", "r", "a">>) \/ w = a THEN NoMatch
        ELSE IF sa /\ w2 > w + 2 /\ w2 <= Len(s) /\ IsAlpha(s[w2])
             THEN [ok |-> TRUE, name |-> Slice(s, w2, NameEnd(s, w2))]
        ELSE IF sa /\ w2 > w + 3
             THEN [ok |-> TRUE, name |-> Slice(s, w2 - 1, NameEnd(s, w2 - 1))]
        ELSE IF w <= Len(s) /\ IsAlpha(s[w])
             THEN [ok |-> TRUE, name |-> Slice(s, w, NameEnd(s, w))]
        ELSE IF w - a >= 2
             THEN [ok |-> TRUE, name |-> Slice(s, w - 1, NameEnd(s, w - 1))]
        ELSE NoMatch))))

\* r'([A-Za-z\s]+)\s+ordered' anchored at i: the group is greedy and gives back
MatchOrderedName(s, i) ==
    Bind({g \in (i + 1)..(NameEnd(s, i) - 1) :
             /\ IsSpace(s[g])
             /\ LitAtI(s, SpacesEnd(s, g), <<"o", "r", "d", "e", "r", "e", "d">>)}, LAMBDA good :
        IF good = {} THEN NoMatch
        ELSE [ok |-> TRUE, name |-> Slice(s, i, MaxOf(good))])

NamePattern(p, s, i) ==
    CASE p = 1 -> MatchKwName(s, i, <<"f", "o", "r">>, 1)
      [] p = 2 -> MatchParaName(s, i)
      [] p = 3 -> MatchKwName(s, i, <<"k", "a", "y">>, 1)
      [] p = 4 -> MatchKwName(s, i, <<"f", "r", "o", "m">>, 1)
      [] p = 5 -> MatchOrderedName(s, i)
      [] p = 6 -> MatchKwName(s, i, <<"c", "u", "s", "t", "o", "m", "e", "r", ":">>, 0)

\* re.search: the match at the leftmost position that has one
NameSearch(p, s) ==
    Bind({i \in 1..Len(s) : NamePattern(p, s, i).ok}, LAMBDA at :
        IF at = {} THEN NoMatch ELSE NamePattern(p, s, MinOf(at)))

BasicCustomerName(message) ==
    Bind({p \in 1..6 : NameSearch(p, message).ok}, LAMBDA hit :
        IF hit = {} THEN None
        ELSE Some(StrTitle(StrStrip(NameSearch(MinOf(hit), message).name))))

(***************************************************************************)
(* _detect_payment_method, _detect_location_and_seller                     *)
(***************************************************************************)
\* a variant that tests the keywords of Cash first
DetectPaymentMethodCashFirst(message) ==
    Bind(StrLower(message), LAMBDA message_lower :
        IF AnyIn(message_lower, {<<"c", "a", "s", "h">>, <<"c", "o", "d">>, <<"c", "a", "s", "h", " ", "o", "n", " ", "d", "e", "l", "i", "v", "e", "r", "y">>, <<"b", "a", "y", "a", "d", " ", "c", "a", "s", "h">>})
        THEN Some(<<"C", "a", "s", "h">>)
        ELSE IF AnyIn(message_lower, {<<"g", "c", "a", "s", "h">>, <<"g", "-", "c", "a", "s", "h">>, <<"g", " ", "c", "a", "s", "h">>}) THEN Some(<<"G", "c", "a", "s", "h">>)
        ELSE IF AnyIn(message_lower, {<<"b", "p", "i">>}) THEN Some(<<"B", "P", "I">>)
        ELSE IF AnyIn(message_lower, {<<"m", "a", "y", "a">>, <<"p", "a", "y", "m", "a", "y", "a">>, <<"p", "a", "y", " ", "m", "a", "y", "a">>}) THEN Some(<<"M", "a", "y", "a">>)
        ELSE IF AnyIn(message_lower, {<<"b", "d", "o">>}) THEN Some(<<"B", "D", "O">>)
        ELSE IF AnyIn(message_lower, {<<"t", "r", "a", "n", "s", "f", "e", "r">>, <<"b", "a", "n", "k">>, <<"o", "n", "l", "i", "n", "e">>}) THEN Some(<<"O", "t", "h", "e", "r", "s">>)
        ELSE None)

DetectPaymentMethod(message) ==
    Bind(StrLower(message), LAMBDA message_lower :
        IF AnyIn(message_lower, {<<"g", "c", "a", "s", "h">>, <<"g", "-", "c", "a", "s", "h">>, <<"g", " ", "c", "a", "s", "h">>}) THEN Some(<<"G", "c", "a", "s", "h">>)
        ELSE IF AnyIn(message_lower, {<<"b", "p", "i">>}) THEN Some(<<"B", "P", "I">>)
        ELSE IF AnyIn(message_lower, {<<"m", "a", "y", "a">>, <<"p", "a", "y", "m", "a", "y", "a">>, <<"p", "a", "y", " ", "m", "a", "y", "a">>}) THEN Some(<<"M", "a", "y", "a">>)
        ELSE IF AnyIn(message_lower, {<<"c", "a", "s", "h">>, <<"c", "o", "d">>, <<"c", "a", "s", "h", " ", "o", "n", " ", "d", "e", "l", "i", "v", "e", "r", "y">>, <<"b", "a", "y", "a", "d", " ", "c", "a", "s", "h">>})
             THEN Some(<<"C", "a", "s", "h">>)
        ELSE IF AnyIn(message_lower, {<<"b", "d", "o">>}) THEN Some(<<"B", "D", "O">>)
        ELSE IF AnyIn(message_lower, {<<"t", "r", "a", "n", "s", "f", "e", "r">>, <<"b", "a", "n", "k">>, <<"o", "n", "l", "i", "n", "e">>}) THEN Some(<<"O", "t", "h", "e", "r", "s">>)
        ELSE None)

\* the two non-ASCII keywords as the source file holds them: "A~" and "+-" stand for
\* the characters U+00C3 and U+00B1
Paranaque_nt == <<"p", "a", "r", "a", "A~", "+-", "a", "q", "u", "e">>
Paranaque_ant == <<"p", "a", "r", "a", "n", "a", "A~", "+-", "a", "q", "u", "e">>

\* <<location, auto_sold_by>>
DetectLocationAndSeller(message) ==
    LET message_lower == StrLower(message)
        qc_keywords == {<<"q", "u", "e", "z", "o", "n", " ", "c", "i", "t", "y">>, <<"q", "c">>, <<"s", "a", " ", "q", "c">>, <<"g", "a", "l", "i", "n", "g", " ", "q", "c">>,
                        <<"d", "i", "t", "o", " ", "s", "a", " ", "q", "u", "e", "z", "o", "n", " ", "c", "i", "t", "y">>, <<"t", "a", "g", "a", " ", "q", "c">>, <<"q", "c", " ", "a", "r", "e", "a">>}
        paranaque_keywords == {<<"p", "a", "r", "a", "n", "a", "q", "u", "e">>, Paranaque_ant, Paranaque_nt,
                               <<"s", "a", " ", "p", "a", "r", "a", "n", "a", "q", "u", "e">>, <<"g", "a", "l", "i", "n", "g", " ", "p", "a", "r", "a", "n", "a", "q", "u", "e">>,
                               <<"d", "i", "t", "o", " ", "s", "a", " ", "p", "a", "r", "a", "n", "a", "q", "u", "e">>, <<"t", "a", "g", "a", " ", "p", "a", "r", "a", "n", "a", "q", "u", "e">>, <<"p", "a", "r", "a", "n", "a", "q", "u", "e", " ", "a", "r", "e", "a">>}
    IN  IF AnyIn(message_lower, qc_keywords) THEN <<Some(<<"Q", "u", "e", "z", "o", "n", " ", "C", "i", "t", "y">>), Some(<<"F", "e", "r", "d", "i", "e">>)>>
        ELSE IF AnyIn(message_lower, paranaque_keywords) THEN <<Some(<<"P", "a", "r", "a", "n", "a", "q", "u", "e">>), Some(<<"N", "i", "n", "a">>)>>
        ELSE <<None, None>>

(***************************************************************************)
(* Python float arithmetic of int(total * (pct / 100)): IEEE-754 binary64, *)
(* round to nearest even.  A 53-bit significand is held as a leading part  *)
(* and three 13-bit limbs so that no intermediate exceeds 31 bits.         *)
(***************************************************************************)
LimbBase == 2^13

\* the significand of the double pct / 100 and its scaling: the double is
\* (((q0 * B + l1) * B + l2) * B + l3) / 2^(39 + sh)
FloatDiv100(pct) ==
    Bind(CHOOSE r \in 0..21 :
            (LimbBase * 100 <= pct * 2^r) /\ (pct * 2^r < 2 * LimbBase * 100), LAMBDA sh :
    Bind(pct * 2^sh, LAMBDA n0 :
    Bind(n0 % 100, LAMBDA r0 :
    Bind((r0 * LimbBase) % 100, LAMBDA r1 :
    Bind((r1 * LimbBase) % 100, LAMBDA r2 :
    Bind((r2 * LimbBase) \div 100, LAMBDA l3 :
    Bind((r2 * LimbBase) % 100, LAMBDA r3 :
    Bind(IF (2 * r3 > 100) \/ (2 * r3 = 100 /\ l3 % 2 = 1) THEN l3 + 1 ELSE l3, LAMBDA m3 :
    Bind(((r1 * LimbBase) \div 100) + (m3 \div LimbBase), LAMBDA m2 :
    Bind(((r0 * LimbBase) \div 100) + (m2 \div LimbBase), LAMBDA m1 :
        [sh |-> sh, q0 |-> (n0 \div 100) + (m1 \div LimbBase),
         l1 |-> m1 % LimbBase, l2 |-> m2 % LimbBase, l3 |-> m3 % LimbBase]))))))))))

BitLen(n) == CHOOSE b \in 0..31 : (b = 0 \/ 2^(b - 1) <= n) /\ (b = 31 \/ n < 2^b)

\* int(total * (pct / 100)) for integers total >= 0 and pct >= 0
FloatPercentOf(total, pct) ==
    IF total = 0 \/ pct = 0 THEN 0
    ELSE Bind(FloatDiv100(pct), LAMBDA f :
         Bind(total * f.l3, LAMBDA x3 :
         Bind(total * f.l2 + (x3 \div LimbBase), LAMBDA x2 :
         Bind(total * f.l1 + (x2 \div LimbBase), LAMBDA x1 :
         Bind(total * f.q0 + (x1 \div LimbBase), LAMBDA top :
         Bind(x1 % LimbBase, LAMBDA o1 :
         Bind((x2 % LimbBase) * LimbBase + (x3 % LimbBase), LAMBDA low :
         Bind(BitLen(top) - 14, LAMBDA d :
         Bind(low % (2^d), LAMBDA rem :
         Bind(d > 0 /\ (  rem > 2^(d - 1)
                       \/ (rem = 2^(d - 1) /\ (low \div (2^d)) % 2 = 1)), LAMBDA up :
         Bind(IF up /\ o1 = LimbBase - 1 /\ low - rem + 2^d = LimbBase * LimbBase
              THEN 1 ELSE 0, LAMBDA carry :
             (top + carry) \div (2^f.sh))))))))))))

(***************************************************************************)
(* _detect_discount, _detect_shipping_fee                                  *)
(***************************************************************************)
\* r'(\d+)' + after, anchored at i: the digits, when after(end of digits) holds
\* r'KW\s*(?:fee)?\s*(\d+)' anchored at i (fee: whether the pattern has (?:fee)?)
MatchKwNumber(s, i, kw, fee) ==
    Bind(SpacesEnd(s, i + Len(kw)), LAMBDA a :
    Bind(IF fee /\ LitAt(s, a, <<"f", "e", "e">>) THEN SpacesEnd(s, a + 3) ELSE a, LAMBDA b :
    Bind(DigitsEnd(s, b), LAMBDA e :
        IF ~LitAt(s, i, kw) \/ e = b THEN NoMatch
        ELSE [ok |-> TRUE, num |-> Slice(s, b, e), end |-> e])))

\* r'(\d+)' + mid + r'\s*KW' anchored at i; mid is "" or "%"
MatchNumberKw(s, i, mid, kw) ==
    Bind(DigitsEnd(s, i), LAMBDA e :
        IF i > Len(s) \/ ~IsDigit(s[i]) \/ ~LitAt(s, e, mid)
              \/ ~LitAt(s, SpacesEnd(s, e + Len(mid)), kw)
        THEN NoMatch
        ELSE [ok |-> TRUE, num |-> Slice(s, i, e)])

\* r'discount\s*(\d+)%' anchored at i
MatchDiscountNumberPct(s, i) ==
    Bind(MatchKwNumber(s, i, <<"d", "i", "s", "c", "o", "u", "n", "t">>, FALSE), LAMBDA m :
        IF m.ok /\ LitAt(s, m.end, <<"%">>) THEN m ELSE NoMatch)

\* r'plus\s*(\d+)\s*(?:shipping|sf|delivery|padala)' anchored at i
MatchPlusNumber(s, i) ==
    Bind(MatchKwNumber(s, i, <<"p", "l", "u", "s">>, FALSE), LAMBDA m :
        IF m.ok /\ \E kw \in {<<"s", "h", "i", "p", "p", "i", "n", "g">>, <<"s", "f">>, <<"d", "e", "l", "i", "v", "e", "r", "y">>, <<"p", "a", "d", "a", "l", "a">>} :
                        LitAt(s, SpacesEnd(s, m.end), kw)
        THEN m ELSE NoMatch)

DiscountPattern(p, s, i) ==
    CASE p = 1 -> MatchNumberKw(s, i, <<"%">>, <<"o", "f", "f">>)
      [] p = 2 -> MatchNumberKw(s, i, <<"%">>, <<"d", "i", "s", "c", "o", "u", "n", "t">>)
      [] p = 3 -> MatchNumberKw(s, i, <<"%">>, <<>>)
      [] p = 4 -> MatchNumberKw(s, i, <<>>, <<"o", "f", "f">>)
      [] p = 5 -> MatchDiscountNumberPct(s, i)
      [] p = 6 -> MatchKwNumber(s, i, <<"d", "i", "s", "c", "o", "u", "n", "t">>, FALSE)

ShippingPattern(p, s, i) ==
    CASE p = 1 -> MatchKwNumber(s, i, <<"s", "h", "i", "p", "p", "i", "n", "g">>, TRUE)
      [] p = 2 -> MatchKwNumber(s, i, <<"d", "e", "l", "i", "v", "e", "r", "y">>, TRUE)
      [] p = 3 -> MatchKwNumber(s, i, <<"s", "f">>, TRUE)
      [] p = 4 -> MatchKwNumber(s, i, <<"p", "a", "d", "a", "l", "a">>, FALSE)
      [] p = 5 -> MatchKwNumber(s, i, <<"h", "a", "t", "i", "d">>, FALSE)
      [] p = 6 -> MatchKwNumber(s, i, <<"s", "h", "i", "p">>, FALSE)
      [] p = 7 -> MatchKwNumber(s, i, <<"d", "e", "l", "i", "v", "e", "r">>, FALSE)
      [] p = 8 -> MatchNumberKw(s, i, <<>>, <<"s", "h", "i", "p", "p", "i", "n", "g">>)
      [] p = 9 -> MatchNumberKw(s, i, <<>>, <<"s", "f">>)
      [] p = 10 -> MatchPlusNumber(s, i)

\* re.search(discount_patterns[p], message_lower): the captured number, if any
DiscountSearch(p, s) ==
    Bind({i \in 1..Len(s) : DiscountPattern(p, s, i).ok}, LAMBDA at :
        IF at = {} THEN NoMatch ELSE DiscountPattern(p, s, MinOf(at)))

ShippingSearch(p, s) ==
    Bind({i \in 1..Len(s) : ShippingPattern(p, s, i).ok}, LAMBDA at :
        IF at = {} THEN NoMatch ELSE ShippingPattern(p, s, MinOf(at)))

\* a variant that takes a bare keyword for no discount
DetectDiscountNumbersOnly(message, total_amount) ==
    Bind(StrLower(message), LAMBDA message_lower :
    Bind({p \in 1..6 : DiscountSearch(p, message_lower).ok}, LAMBDA hit :
        IF hit # {}
        THEN Bind(ToInt(DiscountSearch(MinOf(hit), message_lower).num),
                  LAMBDA discount_percentage :
                      <<Some(discount_percentage),
                        Some(FloatPercentOf(total_amount, discount_percentage))>>)
        ELSE <<None, None>>))

\* <<discount_percentage, discount_amount>>
DetectDiscount(message, total_amount) ==
    Bind(StrLower(message), LAMBDA message_lower :
    Bind({p \in 1..6 : DiscountSearch(p, message_lower).ok}, LAMBDA hit :
        IF hit # {}
        THEN Bind(ToInt(DiscountSearch(MinOf(hit), message_lower).num),
                  LAMBDA discount_percentage :
                      <<Some(discount_percentage),
                        Some(FloatPercentOf(total_amount, discount_percentage))>>)
        ELSE IF AnyIn(message_lower, {<<"d", "i", "s", "c", "o", "u", "n", "t">>, <<"d", "i", "s", "k", "a", "r", "t", "e">>, <<"b", "a", "w", "a", "s">>})
             THEN <<Some(0), Some(0)>>
        ELSE <<None, None>>))

DetectShippingFee(message) ==
    Bind(StrLower(message), LAMBDA message_lower :
    Bind({p \in 1..10 : ShippingSearch(p, message_lower).ok}, LAMBDA hit :
        IF hit = {} THEN None
        ELSE Some(ToInt(ShippingSearch(MinOf(hit), message_lower).num))))

(***************************************************************************)
(* _basic_parse                                                            *)
(***************************************************************************)
ParsedOrder(customer_name, items, total_amount, raw_message, payment_method, customer_location, auto_sold_by, discount_percentage, discount_amount, shipping_fee) ==
    [customer_name |-> customer_name, items |-> items, total_amount |-> total_amount,
     raw_message |-> raw_message, payment_method |-> payment_method,
     customer_location |-> customer_location, auto_sold_by |-> auto_sold_by,
     discount_percentage |-> discount_percentage, discount_amount |-> discount_amount,
     shipping_fee |-> shipping_fee]

BasicParse(message) ==
    Bind(BasicItems(message), LAMBDA items :
    Bind(SumItems(items), LAMBDA total :
    Bind(DetectLocationAndSeller(message), LAMBDA loc :
    Bind(DetectDiscount(message, total), LAMBDA disc :
        ParsedOrder(BasicCustomerName(message), items, total, message,
                    DetectPaymentMethod(message), loc[1], loc[2], disc[1], disc[2],
                    DetectShippingFee(message))))))

(***************************************************************************)
(* _create_order_from_json.  The parsed JSON object is a record; a field   *)
(* that is None stands for null, and also for an absent key where data.get *)
(* has no default; an absent key that has a default is written as its      *)
(* default.  has_items tells whether the key 'items' is present.  sold_by  *)
(* is a seller-like key of the external response.                          *)
(***************************************************************************)
ItemData(product_code, quantity) == [product_code |-> product_code, quantity |-> quantity]

\* the items loop: item_data.get('product_code', '').upper(), item_data.get('quantity', 0)
RECURSIVE JsonItems(_)
JsonItems(list) ==
    IF list = <<>> THEN <<>>
    ELSE Bind(Head(list), LAMBDA item_data :
         Bind(StrUpper(item_data.product_code[1]), LAMBDA product_code :
         Bind(item_data.quantity[1], LAMBDA quantity :
             (IF product_code \in CodeSet /\ quantity > 0
              THEN <<OrderItem(PRODUCTS[product_code], quantity)>>
              ELSE <<>>) \o JsonItems(Tail(list)))))

\* what raises in the items loop: iterating over null, null.upper(), null > 0
CreateOrderRaises(data) ==
    /\ data.has_items
    /\ \/ IsNone(data.items)
       \/ \E k \in 1..Len(data.items[1]) :
             LET item_data == data.items[1][k]
             IN  \/ IsNone(item_data.product_code)
                 \/ /\ StrUpper(item_data.product_code[1]) \in CodeSet
                    /\ IsNone(item_data.quantity)

\* a variant that trusts the seller named by the response
AutoSoldByTrusting(data) ==
    IF data.sold_by # None THEN data.sold_by
    ELSE IF data.customer_location = Some(<<"Q", "u", "e", "z", "o", "n", " ", "C", "i", "t", "y">>) THEN Some(<<"F", "e", "r", "d", "i", "e">>)
    ELSE IF data.customer_location = Some(<<"P", "a", "r", "a", "n", "a", "q", "u", "e">>) THEN Some(<<"N", "i", "n", "a">>)
    ELSE None

\* the seller is worked out from data.get('customer_location') alone
AutoSoldBy(data) ==
    IF data.customer_location = Some(<<"Q", "u", "e", "z", "o", "n", " ", "C", "i", "t", "y">>) THEN Some(<<"F", "e", "r", "d", "i", "e">>)
    ELSE IF data.customer_location = Some(<<"P", "a", "r", "a", "n", "a", "q", "u", "e">>) THEN Some(<<"N", "i", "n", "a">>)
    ELSE None

CreateOrderFromJson(data, raw_message) ==
    Bind(JsonItems(IF data.has_items THEN data.items[1] ELSE <<>>), LAMBDA items :
    Bind(SumItems(items), LAMBDA total :
    Bind(data.discount_percentage, LAMBDA discount_percentage :
        [customer_name |-> IF TruthyText(data.customer_name)
                           THEN Some(StrTitle(StrStrip(data.customer_name[1])))
                           ELSE data.customer_name,
         items |-> items, total_amount |-> total,
         raw_message |-> raw_message, payment_method |-> data.payment_method,
         customer_location |-> data.customer_location, auto_sold_by |-> AutoSoldBy(data),
         discount_percentage |-> discount_percentage,
         discount_amount |-> IF TruthyInt(discount_percentage) /\ ~TruthyInt(data.discount_amount)
                             THEN Some(FloatPercentOf(total, discount_percentage[1]))
                             ELSE data.discount_amount,
         shipping_fee |-> data.shipping_fee,
         confidence |-> data.confidence, parsing_notes |-> data.notes])))

(***************************************************************************)
(* _extract_and_validate_response.  The response text is a sequence of     *)
(* tokens: the braces, the opening and the closing fence, "ws" (blanks),   *)
(* "txt" (prose without braces or fences), "5" (a JSON number) and         *)
(* [members |-> d], the text of the members of the JSON object d, whose    *)
(* own braces are nested inside it.                                        *)
(***************************************************************************)
\* a token is <<kind>>, or <<"members", d>>
Tok(kind) == <<kind>>
Members(d) == <<"members", d>>
Is(tok, kind) == tok[1] = kind
NoJson == [type |-> "none"]

TokStrip(toks) ==
    Bind({k \in 1..Len(toks) : ~Is(toks[k], "ws")}, LAMBDA keep :
        IF keep = {} THEN <<>> ELSE SubSeq(toks, MinOf(keep), MaxOf(keep)))

\* json.loads: NoJson stands for JSONDecodeError
JsonLoads(toks) ==
    Bind(TokStrip(toks), LAMBDA t :
    Bind(TokStrip(SubSeq(t, 2, Len(t) - 1)), LAMBDA inner :
        IF t # <<>> /\ \A k \in 1..Len(t) : Is(t[k], "5") THEN [type |-> "number"]
        ELSE IF Len(t) >= 2 /\ Is(t[1], "{") /\ Is(t[Len(t)], "}")
             THEN IF inner = <<>> THEN [type |-> "dict", empty |-> TRUE]
                  ELSE IF Len(inner) = 1 /\ Is(inner[1], "members")
                       THEN [type |-> "dict", empty |-> FALSE, data |-> inner[1][2]]
                  ELSE NoJson
        ELSE NoJson))

\* Python truth of json_data: None and {} are falsy
JsonTruthy(j) == j.type = "number" \/ (j.type = "dict" /\ ~j.empty)

\* Strategy 1: re.search(r'\{.*\}', response_text, re.DOTALL), then json.loads
Strategy1(text) ==
    Bind({k \in 1..Len(text) : Is(text[k], "{")}, LAMBDA opens :
    Bind({k \in 1..Len(text) : Is(text[k], "}")}, LAMBDA closes :
        IF opens = {} \/ closes = {} \/ MaxOf(closes) < MinOf(opens) THEN NoJson
        ELSE JsonLoads(SubSeq(text, MinOf(opens), MaxOf(closes)))))

SkipWs(text, i) ==
    CHOOSE j \in i..(Len(text) + 1) :
        /\ \A k \in i..(j - 1) : Is(text[k], "ws")
        /\ (j = Len(text) + 1 \/ ~Is(text[j], "ws"))

\* Strategy 2: re.search of a json-tagged fence, blanks, the shortest brace span
\* that is followed by blanks and three backquotes (which may be the first
\* characters of another opening fence)
FenceSpans(text) ==
    {fb \in (1..Len(text)) \X (1..Len(text)) :
        /\ Is(text[fb[1]], "fence_json")
        /\ SkipWs(text, fb[1] + 1) <= Len(text)
        /\ Is(text[SkipWs(text, fb[1] + 1)], "{")
        /\ fb[2] > SkipWs(text, fb[1] + 1)
        /\ Is(text[fb[2]], "}")
        /\ SkipWs(text, fb[2] + 1) <= Len(text)
        /\ text[SkipWs(text, fb[2] + 1)][1] \in {"fence", "fence_json"}}

Strategy2(text) ==
    Bind(FenceSpans(text), LAMBDA spans :
        IF spans = {} THEN NoJson
        ELSE Bind(MinOf({sp[1] : sp \in spans}), LAMBDA f :
             Bind(MinOf({sp[2] : sp \in {x \in spans : x[1] = f}}), LAMBDA b :
                 JsonLoads(SubSeq(text, SkipWs(text, f + 1), b)))))

\* the three strategies in order: a later one runs while json_data is falsy
ExtractJson(text) ==
    Bind(Strategy1(text), LAMBDA j1 :
    Bind(IF JsonTruthy(j1) THEN j1
         ELSE Bind(Strategy2(text), LAMBDA s2 : IF s2.type = "none" THEN j1 ELSE s2), LAMBDA j2 :
        IF JsonTruthy(j2) THEN j2
        ELSE Bind(JsonLoads(text), LAMBDA s3 : IF s3.type = "none" THEN j2 ELSE s3)))

\* a variant that accepts any object
AcceptedAnyDict(j) == j.type = "dict" /\ ~j.empty

\* the test json_data and 'items' in json_data (on a number, in raises TypeError)
Accepted(j) == j.type = "dict" /\ ~j.empty /\ j.data.has_items

ExtractAndValidateResponse(response, original_message) ==
    Bind(IF response.kind = "text" THEN ExtractJson(response.text) ELSE NoJson,
         LAMBDA json_data :
             IF Accepted(json_data) /\ ~CreateOrderRaises(json_data.data)
             THEN CreateOrderFromJson(json_data.data, original_message)
             ELSE BasicParse(original_message))

(***************************************************************************)
(* parse_order_with_claude.  response is the outcome of messages.create:   *)
(* kind "nocall" (no client), "raise" (the call raised), "empty" (no       *)
(* content block: content[0] raises) or "text".                            *)
(***************************************************************************)
\* a variant that answers a failed call with an order of nothing
ParseOrderWithClaudeEmptyOnRaise(hasClient, message, response) ==
    IF ~hasClient THEN BasicParse(message)
    ELSE IF response.kind = "raise"
         THEN ParsedOrder(None, <<>>, 0, message, None, None, None, None, None, None)
    ELSE ExtractAndValidateResponse(response, message)

ParseOrderWithClaude(hasClient, message, response) ==
    IF ~hasClient \/ response.kind = "raise" THEN BasicParse(message)
    ELSE ExtractAndValidateResponse(response, message)

(***************************************************************************)
(* The worksheet.  A sheet is a function from <<row, column>> (1-based,    *)
(* A = 1 ... Z = 26, AA = 27) of its non-blank cells to their text; every  *)
(* other cell is blank.                                                    *)
(***************************************************************************)
ColC == 3
ColD == 4
ColE == 5
ColG == 7
ColH == 8
ColJ == 10
ColK == 11
ColN == 14
ColO == 15
ColP == 16
ColQ == 17
ColT == 20
ColU == 21
ColV == 22
ColW == 23
ColZ == 26
ColAA == 27
ScanRows == 2000
FallbackRow == 526

EmptySheet == [rc \in {} |-> <<>>]
CellAt(sheet, r, c) == IF <<r, c>> \in DOMAIN sheet THEN sheet[<<r, c>>] ELSE <<>>
\* a variant that leaves a cell that holds something as it is
SetCellIfBlank(sheet, r, c, text) ==
    IF <<r, c>> \in DOMAIN sheet THEN sheet
    ELSE IF text = <<>> THEN sheet
    ELSE [rc \in (DOMAIN sheet) \cup {<<r, c>>} |-> IF rc = <<r, c>> THEN text ELSE sheet[rc]]

SetCell(sheet, r, c, text) ==
    IF text = <<>> THEN [rc \in (DOMAIN sheet) \ {<<r, c>>} |-> sheet[rc]]
    ELSE [rc \in (DOMAIN sheet) \cup {<<r, c>>} |-> IF rc = <<r, c>> THEN text ELSE sheet[rc]]

\* worksheet.get("D1:W2000"): the rows down to the last non-blank row of the range,
\* each row cut after its last non-blank cell; index 1 of a row is column D
WorksheetGet(sheet) ==
    LET inRange == {rc \in DOMAIN sheet : rc[1] <= ScanRows /\ rc[2] >= ColD /\ rc[2] <= ColW}
        nrows == IF inRange = {} THEN 0 ELSE MaxOf({rc[1] : rc \in inRange})
        width(r) == LET cs == {rc[2] : rc \in {x \in inRange : x[1] = r}}
                    IN  IF cs = {} THEN 0 ELSE MaxOf(cs) - ColD + 1
    IN  [r \in 1..nrows |-> [k \in 1..width(r) |-> CellAt(sheet, r, ColD + k - 1)]]

(***************************************************************************)
(* find_next_available_row                                                 *)
(***************************************************************************)
\* 0-based indices of N, O, P, Q, T, U, V, W within the range D..W
ProductColumnIndices == {10, 11, 12, 13, 16, 17, 18, 19}

\* a variant that takes a name of blanks for a name
HasCustomerDataUnstripped(row_data) ==
    Len(row_data) > 0 /\ row_data[1] # <<>>

HasCustomerData(row_data) ==
    Len(row_data) > 0 /\ row_data[1] # <<>> /\ StrStrip(row_data[1]) # <<>>

HasProductData(row_data) ==
    \E col_index \in ProductColumnIndices :
        /\ Len(row_data) > col_index
        /\ row_data[col_index + 1] # <<>>
        /\ StrStrip(row_data[col_index + 1]) # <<>>
        /\ StrStrip(row_data[col_index + 1]) # <<"0">>

\* the loop over all_data: the last row, after the header, that is occupied
LastRowWithData(all_data) ==
    LET occupied == {r \in 2..Len(all_data) :
                        HasCustomerData(all_data[r]) \/ HasProductData(all_data[r])}
    IN  IF occupied = {} THEN 1 ELSE MaxOf(occupied)

\* a variant that leaves one row free after the last occupied one
FindNextAvailableRowSparing(sheet, readOk) ==
    IF readOk THEN LastRowWithData(WorksheetGet(sheet)) + 2 ELSE FallbackRow

\* a variant that answers from the grid also when the read failed
FindNextAvailableRowOfGrid(sheet, readOk) == LastRowWithData(WorksheetGet(sheet)) + 1

\* readOk = FALSE: worksheet.get raised
FindNextAvailableRow(sheet, readOk) ==
    IF readOk THEN LastRowWithData(WorksheetGet(sheet)) + 1 ELSE FallbackRow

(***************************************************************************)
(* update_order_row                                                        *)
(***************************************************************************)
StrVal(text) == [kind |-> "str", v |-> text]
IntVal(n) == [kind |-> "int", v |-> n]
ValTruthy(val) == IF val.kind = "int" THEN val.v # 0 ELSE val.v # <<>>

RECURSIVE IntToText(_)
IntToText(n) ==
    IF n < 0 THEN <<"-">> \o IntToText(0 - n)
    ELSE IF n < 10 THEN <<DigitChars[n + 1]>>
    ELSE IntToText(n \div 10) \o <<DigitChars[(n % 10) + 1]>>

\* the text a cell holds after update_cell(row, col, value)
CellText(val) == IF val.kind = "int" THEN IntToText(val.v) ELSE val.v

\* a variant that puts the last SKU one column further right
ProductColumnShifted(code) ==
    CASE code = <<"P", "-", "C", "H", "Z">> -> ColN
      [] code = <<"P", "-", "S", "C">> -> ColO
      [] code = <<"P", "-", "B", "B", "Q">> -> ColP
      [] code = <<"P", "-", "O", "G">> -> ColQ
      [] code = <<"2", "L", "-", "C", "H", "Z">> -> ColT
      [] code = <<"2", "L", "-", "S", "C">> -> ColU
      [] code = <<"2", "L", "-", "B", "B", "Q">> -> ColV
      [] code = <<"2", "L", "-", "O", "G">> -> ColW + 1

\* the if/elif chain from product code to column
ProductColumn(code) ==
    CASE code = <<"P", "-", "C", "H", "Z">> -> ColN
      [] code = <<"P", "-", "S", "C">> -> ColO
      [] code = <<"P", "-", "B", "B", "Q">> -> ColP
      [] code = <<"P", "-", "O", "G">> -> ColQ
      [] code = <<"2", "L", "-", "C", "H", "Z">> -> ColT
      [] code = <<"2", "L", "-", "S", "C">> -> ColU
      [] code = <<"2", "L", "-", "B", "B", "Q">> -> ColV
      [] code = <<"2", "L", "-", "O", "G">> -> ColW

\* updates[col] = val on a dict kept as a sequence of <<col, val>> in insertion order
DictSet(updates, col, val) ==
    IF \E k \in 1..Len(updates) : updates[k][1] = col
    THEN [k \in 1..Len(updates) |-> IF updates[k][1] = col THEN <<col, val>> ELSE updates[k]]
    ELSE Append(updates, <<col, val>>)

RECURSIVE QuantityUpdates(_, _)
QuantityUpdates(updates, items) ==
    IF items = <<>> THEN updates
    ELSE QuantityUpdates(DictSet(updates, ProductColumn(Head(items).product.code),
                                 IntVal(Head(items).quantity)),
                         Tail(items))

\* the dict updates that update_order_row builds; clock is the Manila date and time
BuildUpdates(parsed_order, clock) ==
    LET u1 == << <<ColC, StrVal(clock.date)>>,
                 <<ColD, StrVal(IF TruthyText(parsed_order.customer_name)
                                THEN parsed_order.customer_name[1] ELSE <<"U", "n", "k", "n", "o", "w", "n">>)>> >>
        u2 == IF TruthyText(parsed_order.auto_sold_by)
              THEN Append(u1, <<ColE, StrVal(parsed_order.auto_sold_by[1])>>) ELSE u1
        u3 == Append(u2, <<ColH, StrVal(<<"U", "n", "p", "a", "i", "d">>)>>)
        u4 == IF TruthyText(parsed_order.payment_method)
              THEN Append(u3, <<ColG, StrVal(parsed_order.payment_method[1])>>) ELSE u3
        u5 == Append(Append(u4, <<ColJ, StrVal(<<"robot", " ">> \o clock.time)>>),
                     <<ColK, StrVal(<<"R", "e", "s", "e", "r", "v", "e", "d">>)>>)
        u6 == QuantityUpdates(u5, parsed_order.items)
        u7 == IF TruthyInt(parsed_order.discount_amount) /\ parsed_order.discount_amount[1] > 0
              THEN DictSet(u6, ColAA, IntVal(parsed_order.discount_amount[1])) ELSE u6
    IN  IF TruthyInt(parsed_order.shipping_fee) /\ parsed_order.shipping_fee[1] > 0
        THEN DictSet(u7, ColZ, IntVal(parsed_order.shipping_fee[1])) ELSE u7

\* the update_cell calls of the loop, in order: only truthy values are written
CellWrites(updates) == SelectSeq(updates, LAMBDA u : ValTruthy(u[2]))

\* a variant that loses the writes
ApplyWritesLost(sheet, row_number, calls, n) == sheet

\* the sheet after the first n of the calls
RECURSIVE ApplyWrites(_, _, _, _)
ApplyWrites(sheet, row_number, calls, n) ==
    IF n = 0 THEN sheet
    ELSE SetCell(ApplyWrites(sheet, row_number, calls, n - 1),
                 row_number, calls[n][1], CellText(calls[n][2]))

(***************************************************************************)
(* Inputs                                                                  *)
(***************************************************************************)
MaxMessageChunks == 3
MaxResponseChunks == 3
MaxRow == 3
MaxCells == 3
MaxBacklog == 2

RECURSIVE Concat(_)
Concat(seqs) == IF seqs = <<>> THEN <<>> ELSE Head(seqs) \o Concat(Tail(seqs))
SeqsUpTo(S, n) == UNION {[1..k -> S] : k \in 0..n}

\* the messages of the end-to-end scenarios, and messages put together from chunks
ScenarioA == <<"2", " ", "c", "h", "e", "e", "s", "e", " ", "p", "o", "u", "c", "h", "e", "s", " ", "a", "n", "d", " ", "1", " ", "B", "B", "Q", " ", "t", "u", "b", " ", "f", "o", "r", " ", "M", "a", "r", "i", "a", ",", " ", "g", "c", "a", "s", "h", ",", " ", "Q", "C">>
ScenarioB == <<"1", "5", "%", " ", "o", "f", "f", ",", " ", "s", "h", "i", "p", "p", "i", "n", "g", " ", "5", "0", ",", " ", "1", " ", "2", "L", "-", "O", "G">>
ScenarioMessages ==
    {ScenarioA, ScenarioB, <<"8", "2", "%", " ", "o", "f", "f", " ", "1", " ", "P", "-", "C", "H", "Z">>, <<"h", "e", "l", "l", "o", " ", "p", "o">>, <<"P", "-", "C", "H", "Z", " ", "2", "L", "-", "O", "G", " ", "3">>,
     <<"2", " ", "P", "-", "C", "H", "Z", " ", "a", "n", "d", " ", "1", " ", "2", "L", "-", "B", "B", "Q", " ", "p", "a", "r", "a", " ", "s", "a", " ", "n", "i", "n", "a", ",", " ", "b", "p", "i", ",", " ", "p", "a", "r", "a", "n", "a", "q", "u", "e">>}
MessageChunks ==
    {<<"0">>, <<"2">>, <<" ">>, <<"P", "-", "C", "H", "Z">>, <<"2", "l", "-", "o", "g">>, <<"%">>, <<" ", "q", "c">>}
ZeroPouch == <<"0", " ", "P", "-", "C", "H", "Z">>
\* messages that exercise the discount, payment and shipping rules
RuleMessages ==
    {<<"1", " ", "P", "-", "C", "H", "Z", " ", "b", "a", "w", "a", "s">>, <<"2", " ", "P", "-", "C", "H", "Z", " ", "d", "i", "s", "c", "o", "u", "n", "t", " ", "1", "0">>, <<"1", " ", "P", "-", "C", "H", "Z", " ", "5", " ", "o", "f", "f", " ", "2", "0", "%">>,
     <<"d", "i", "s", "c", "o", "u", "n", "t", " ", "5", "%", " ", "1", " ", "2", "L", "-", "O", "G">>, <<"1", " ", "2", "L", "-", "O", "G", " ", "1", "0", " ", "%", " ", "d", "i", "s", "c", "o", "u", "n", "t">>,
     <<"2", " ", "P", "-", "C", "H", "Z", " ", "g", "c", "a", "s", "h">>, <<"1", " ", "P", "-", "C", "H", "Z", " ", "c", "a", "s", "h", " ", "b", "p", "i">>, <<"1", " ", "2", "L", "-", "O", "G", " ", "b", "a", "n", "k", " ", "b", "d", "o", " ", "m", "a", "y", "a">>, <<"1", " ", "P", "-", "S", "C", " ", "c", "o", "d">>,
     <<"2", " ", "P", "-", "C", "H", "Z", " ", "1", "5", "%", " ", "o", "f", "f">>, <<"2", " ", "P", "-", "C", "H", "Z", " ", "5", "0", " ", "s", "f">>, <<"P", "-", "C", "H", "Z", " ", "2", " ", "5", "0", " ", "s", "f">>}
Messages ==
    ScenarioMessages \cup RuleMessages
        \cup {Concat(cs) : cs \in SeqsUpTo(MessageChunks, MaxMessageChunks)}

\* the messages parsed with a configured client
ApiMessages == {<<"2", " ", "P", "-", "C", "H", "Z", " ", "q", "c">>, <<"h", "e", "l", "l", "o", " ", "p", "o">>}

\* the values of 'items': null, lists with known and unknown codes, codes in lower
\* case, an absent code (the default ''), quantities that are zero, negative or null
ItemValues ==
    { None,
      Some(<<>>),
      Some(<<ItemData(Some(<<"P", "-", "C", "H", "Z">>), Some(2))>>),
      Some(<<ItemData(Some(<<"p", "-", "s", "c">>), Some(1)), ItemData(Some(<<"2", "L", "-", "O", "G">>), Some(0)),
             ItemData(Some(<<"P", "-", "X", "X">>), None), ItemData(Some(<<>>), Some(2)),
             ItemData(Some(<<"2", "L", "-", "B", "B", "Q">>), Some(0 - 1))>>),
      Some(<<ItemData(Some(<<"P", "-", "C", "H", "Z">>), Some(1)), ItemData(None, Some(2))>>),
      Some(<<ItemData(Some(<<"2", "L", "-", "C", "H", "Z">>), None)>>) }

JsonDict(has_items, items, customer_name, payment_method, customer_location, discount_percentage, discount_amount, shipping_fee, confidence, notes, sold_by) ==
    [has_items |-> has_items, items |-> items, customer_name |-> customer_name,
     payment_method |-> payment_method, customer_location |-> customer_location,
     discount_percentage |-> discount_percentage, discount_amount |-> discount_amount,
     shipping_fee |-> shipping_fee, confidence |-> confidence, notes |-> notes,
     sold_by |-> sold_by]

\* candidates that the service may return
Dicts ==
    {JsonDict(TRUE, il, who[1], who[2], loc, pct, amt, sf, Some(95), Some(<<>>), sb) :
        il \in ItemValues,
        who \in {<<None, None>>, <<Some(<<" ", "a", "l", " ", "c", "r", "u", "z">>), Some(<<"G", "c", "a", "s", "h">>)>>},
        loc \in {None, Some(<<"Q", "u", "e", "z", "o", "n", " ", "C", "i", "t", "y">>), Some(<<"P", "a", "r", "a", "n", "a", "q", "u", "e">>), Some(<<"C", "e", "b", "u">>)},
        pct \in {None, Some(0), Some(41)},
        amt \in {None, Some(0), Some(100)},
        sf \in {None, Some(0), Some(50)},
        sb \in {None, Some(<<"N", "i", "n", "a">>)}}

DictA == JsonDict(TRUE, Some(<<ItemData(Some(<<"2", "L", "-", "O", "G">>), Some(1))>>), None, None,
                  Some(<<"P", "a", "r", "a", "n", "a", "q", "u", "e">>), None, None, None, Some(95), Some(<<"o", "k">>), Some(<<"F", "e", "r", "d", "i", "e">>))
DictNoItems == JsonDict(FALSE, None, Some(<<"a", "l">>), None, None, None, None, None, None, None, None)
DictB == JsonDict(TRUE, Some(<<ItemData(Some(<<"p", "-", "b", "b", "q">>), Some(3))>>), Some(<<"a", "l">>), Some(<<"B", "P", "I">>),
                  Some(<<"Q", "u", "e", "z", "o", "n", " ", "C", "i", "t", "y">>), Some(41), None, Some(50), None, None, Some(<<"N", "i", "n", "a">>))

ObjText(d) == <<Tok("{"), Members(d), Tok("}")>>
FencedText(d) == <<Tok("fence_json"), Tok("ws")>> \o ObjText(d) \o <<Tok("ws"), Tok("fence")>>
ResponseChunks ==
    {ObjText(DictA), ObjText(DictNoItems), FencedText(DictB),
     <<Tok("txt")>>, <<Tok("ws")>>, <<Tok("{")>>, <<Tok("}")>>, <<Tok("5")>>}
ResponseTexts == {Concat(cs) : cs \in SeqsUpTo(ResponseChunks, MaxResponseChunks)}

NoCall == [kind |-> "nocall"]
TextOutcome(t) == [kind |-> "text", text |-> t]
ApiOutcomes ==
    {[kind |-> "raise"], [kind |-> "empty"]} \cup {TextOutcome(t) : t \in ResponseTexts}

Update(message, response) == [message |-> message, response |-> response]
ParseInputs(hasClient) ==
    IF hasClient
    THEN {Update(m, r) : m \in ApiMessages, r \in ApiOutcomes}
            \cup {Update(<<"2", " ", "P", "-", "C", "H", "Z", " ", "q", "c">>, TextOutcome(ObjText(d))) : d \in Dicts}
    ELSE {Update(m, NoCall) : m \in Messages}

Clocks == {[date |-> <<"1", "1", "/", "0", "1", "/", "2", "0", "2", "6">>, time |-> <<"0", "2", ":", "3", "0", " ", "P", "M">>]}

\* what someone else types into the ledger
EditCols == {ColD, ColN, 19, ColW}
EditTexts == {<<" ">>, <<"0">>, <<"2">>}

Reply(kind, total) == [kind |-> kind, total |-> total]

\* the total that _format_order_summary prints
HasExtras(o) ==
    \/ TruthyInt(o.discount_amount) /\ o.discount_amount[1] > 0
    \/ TruthyInt(o.shipping_fee) /\ o.shipping_fee[1] > 0
\* a variant that forgets the discount
FinalTotalNoDiscount(o) ==
    o.total_amount + (IF TruthyInt(o.shipping_fee) THEN o.shipping_fee[1] ELSE 0)

FinalTotal(o) ==
    o.total_amount + (IF TruthyInt(o.shipping_fee) THEN o.shipping_fee[1] ELSE 0)
                   - (IF TruthyInt(o.discount_amount) THEN o.discount_amount[1] ELSE 0)
SummaryTotal(o) == IF HasExtras(o) THEN FinalTotal(o) ELSE o.total_amount

(***************************************************************************)
(* State                                                                   *)
(***************************************************************************)
Users == {"u1", "u2"}

VARIABLES
    client,     \* OrderParser.client is set
    inbox,      \* per user: the update waiting for process_message
    handled,    \* per user: the update that process_message handled last
    order,      \* per user: parsed_order of the last process_message
    pending,    \* per user: context.user_data['pending_order']
    reply,      \* per user: the last answer of the bot
    pc,         \* per user: where _confirm_order stands
    confirming, \* per user: the local pending_order of _confirm_order
    alloc,      \* per user: the result of find_next_available_row in _confirm_order
    saved,      \* per user: the last update_order_row: order, row, update_cell calls made
    status,     \* per user: the result of find_next_available_row in /status
    sheet,      \* the worksheet
    keyboards,  \* per user: how many order summaries still show the Confirm and Cancel buttons
    backlog,    \* per user: the updates that the user sends after the first one
    worksheet,  \* per user: sheets.worksheet of the process that serves the user is set
    progress    \* per user: the update_cell calls that the running update_order_row has made

vars == <<client, inbox, handled, order, pending, reply, pc, confirming, alloc, saved, status, sheet,
          keyboards, backlog, worksheet, progress>>

Header == [rc \in {<<1, ColD>>} |-> <<"C", "u", "s", "t", "o", "m", "e", "r">>]

InitCommon ==
    /\ handled = [u \in Users |-> None]
    /\ order = [u \in Users |-> None]
    /\ pending = [u \in Users |-> None]
    /\ reply = [u \in Users |-> Reply("none", None)]
    /\ pc = [u \in Users |-> "idle"]
    /\ confirming = [u \in Users |-> None]
    /\ alloc = [u \in Users |-> None]
    /\ saved = [u \in Users |-> None]
    /\ status = [u \in Users |-> None]
    /\ keyboards = [u \in Users |-> 0]
    /\ worksheet = [u \in Users |-> FALSE]
    /\ progress = [u \in Users |-> 0]

(***************************************************************************)
(* process_message                                                         *)
(***************************************************************************)
\* a variant that offers every order for confirmation
ProcessMessageStoring(u) ==
    /\ pc[u] = "idle"
    /\ inbox[u] # None
    /\ \E parsed_order \in {ParseOrderWithClaude(client, inbox[u][1].message, inbox[u][1].response)} :
           /\ order' = [order EXCEPT ![u] = Some(parsed_order)]
           /\ reply' = [reply EXCEPT ![u] = Reply("order_summary", Some(SummaryTotal(parsed_order)))]
           /\ pending' = [pending EXCEPT ![u] = Some(parsed_order)]
           /\ keyboards' = [keyboards EXCEPT ![u] = @ + 1]
    /\ inbox' = [inbox EXCEPT ![u] = None]
    /\ handled' = [handled EXCEPT ![u] = inbox[u]]
    /\ UNCHANGED <<progress, client, pc, confirming, alloc, saved, status, sheet, backlog, worksheet>>

ProcessMessage(u) ==
    /\ pc[u] = "idle"
    /\ inbox[u] # None
    /\ \E parsed_order \in {ParseOrderWithClaude(client, inbox[u][1].message, inbox[u][1].response)} :
           /\ order' = [order EXCEPT ![u] = Some(parsed_order)]
           /\ IF parsed_order.items = <<>>
              THEN /\ reply' = [reply EXCEPT ![u] = Reply("no_valid_products", None)]
                   /\ UNCHANGED <<pending, keyboards>>
              ELSE /\ reply' = [reply EXCEPT ![u] = Reply("order_summary", Some(SummaryTotal(parsed_order)))]
                   /\ pending' = [pending EXCEPT ![u] = Some(parsed_order)]
                   /\ keyboards' = [keyboards EXCEPT ![u] = @ + 1]
    /\ inbox' = [inbox EXCEPT ![u] = None]
    /\ handled' = [handled EXCEPT ![u] = inbox[u]]
    /\ UNCHANGED <<progress, client, pc, confirming, alloc, saved, status, sheet, backlog, worksheet>>

(***************************************************************************)
(* _confirm_order, one action per stretch between two awaits               *)
(***************************************************************************)
\* the button is pressed on a summary that shows it; every edit of that message takes
\* its buttons away
ConfirmOrder(u) ==
    /\ pc[u] = "idle"
    /\ keyboards[u] > 0
    /\ keyboards' = [keyboards EXCEPT ![u] = @ - 1]
    /\ IF pending[u] = None
       THEN /\ reply' = [reply EXCEPT ![u] = Reply("no_pending_order", None)]
            /\ UNCHANGED <<pc, confirming>>
       ELSE /\ pc' = [pc EXCEPT ![u] = "connect"]
            /\ confirming' = [confirming EXCEPT ![u] = pending[u]]
            /\ reply' = [reply EXCEPT ![u] = Reply("step_1", None)]
    /\ UNCHANGED <<progress, client, inbox, handled, order, pending, alloc, saved, status, sheet, backlog, worksheet>>

\* a variant that drops the pending order when the connection fails
ConnectForgetting(u, oks) ==
    /\ pc[u] = "connect"
    /\ \E connection_success \in oks :
          IF connection_success
          THEN /\ pc' = [pc EXCEPT ![u] = "allocate"]
               /\ worksheet' = [worksheet EXCEPT ![u] = TRUE]
               /\ reply' = [reply EXCEPT ![u] = Reply("step_2", None)]
               /\ UNCHANGED pending
          ELSE /\ pc' = [pc EXCEPT ![u] = "idle"]
               /\ UNCHANGED worksheet
               /\ reply' = [reply EXCEPT ![u] = Reply("connection_failed", None)]
               /\ pending' = [pending EXCEPT ![u] = None]
    /\ UNCHANGED <<progress, client, inbox, handled, order, confirming, alloc, saved, status, sheet,
                   keyboards, backlog>>

\* oks: the outcomes of sheets.connect() that can happen
Connect(u, oks) ==
    /\ pc[u] = "connect"
    /\ \E connection_success \in oks :
          IF connection_success
          THEN /\ pc' = [pc EXCEPT ![u] = "allocate"]
               /\ worksheet' = [worksheet EXCEPT ![u] = TRUE]
               /\ reply' = [reply EXCEPT ![u] = Reply("step_2", None)]
          ELSE /\ pc' = [pc EXCEPT ![u] = "idle"]
               /\ UNCHANGED worksheet
               /\ reply' = [reply EXCEPT ![u] = Reply("connection_failed", None)]
    /\ UNCHANGED <<progress, client, inbox, handled, order, pending, confirming, alloc, saved, status, sheet,
                   keyboards, backlog>>

AllocResult(grid, readOk) ==
    [row |-> FindNextAvailableRow(grid, readOk), read_ok |-> readOk, seen |-> grid]

FindNextRow(u, oks) ==
    /\ pc[u] = "allocate"
    /\ \E readOk \in oks : alloc' = [alloc EXCEPT ![u] = Some(AllocResult(sheet, readOk))]
    /\ pc' = [pc EXCEPT ![u] = "write"]
    /\ reply' = [reply EXCEPT ![u] = Reply("step_3", None)]
    /\ UNCHANGED <<progress, client, inbox, handled, order, pending, confirming, saved, status, sheet,
                   keyboards, backlog, worksheet>>

\* a variant that leaves the saved order in the pending slot
UpdateOrderRowKeeping(u, fails) ==
    /\ pc[u] = "write"
    /\ progress[u] = 0
    /\ \E clock \in Clocks :
         LET parsed_order == confirming[u][1]
             row_number == alloc[u][1].row
             calls == CellWrites(BuildUpdates(parsed_order, clock))
         IN  \E n \in 0..Len(calls) :
                /\ IF worksheet[u] THEN n = Len(calls) \/ TRUE \in fails ELSE n = 0
                /\ sheet' = ApplyWrites(sheet, row_number, calls, n)
                /\ saved' = [saved EXCEPT ![u] =
                                Some([order |-> parsed_order, row |-> row_number,
                                      calls |-> SubSeq(calls, 1, n),
                                      success |-> worksheet[u] /\ n = Len(calls)])]
                /\ IF worksheet[u] /\ n = Len(calls)
                   THEN /\ UNCHANGED pending
                        /\ reply' = [reply EXCEPT ![u] = Reply("order_saved", Some(FinalTotal(parsed_order)))]
                   ELSE /\ UNCHANGED pending
                        /\ reply' = [reply EXCEPT ![u] = Reply("save_failed", None)]
    /\ pc' = [pc EXCEPT ![u] = "idle"]
    /\ UNCHANGED <<progress, client, inbox, handled, order, confirming, alloc, status, keyboards, backlog,
                   worksheet>>

\* update_order_row and the rest of the handler; fails: whether an update_cell may raise
UpdateOrderRow(u, fails) ==
    /\ pc[u] = "write"
    /\ progress[u] = 0
    /\ \E clock \in Clocks :
         LET parsed_order == confirming[u][1]
             row_number == alloc[u][1].row
             calls == CellWrites(BuildUpdates(parsed_order, clock))
         IN  \E n \in 0..Len(calls) :
                /\ IF worksheet[u] THEN n = Len(calls) \/ TRUE \in fails ELSE n = 0
                /\ sheet' = ApplyWrites(sheet, row_number, calls, n)
                /\ saved' = [saved EXCEPT ![u] =
                                Some([order |-> parsed_order, row |-> row_number,
                                      calls |-> SubSeq(calls, 1, n),
                                      success |-> worksheet[u] /\ n = Len(calls)])]
                /\ IF worksheet[u] /\ n = Len(calls)
                   THEN /\ pending' = [pending EXCEPT ![u] = None]
                        /\ reply' = [reply EXCEPT ![u] = Reply("order_saved", Some(FinalTotal(parsed_order)))]
                   ELSE /\ UNCHANGED pending
                        /\ reply' = [reply EXCEPT ![u] = Reply("save_failed", None)]
    /\ pc' = [pc EXCEPT ![u] = "idle"]
    /\ UNCHANGED <<progress, client, inbox, handled, order, confirming, alloc, status, keyboards, backlog,
                   worksheet>>

\* update_order_row call by call, for ledgers that others write to meanwhile: one
\* worksheet.update_cell of the loop
UpdateCell(u) ==
    /\ pc[u] = "write"
    /\ worksheet[u]
    /\ \E clock \in Clocks :
         \E calls \in {CellWrites(BuildUpdates(confirming[u][1], clock))} :
            /\ progress[u] < Len(calls)
            /\ sheet' = SetCell(sheet, alloc[u][1].row, calls[progress[u] + 1][1],
                                CellText(calls[progress[u] + 1][2]))
    /\ progress' = [progress EXCEPT ![u] = @ + 1]
    /\ UNCHANGED <<client, inbox, handled, order, pending, reply, pc, confirming, alloc, saved,
                   status, keyboards, backlog, worksheet>>

\* the loop is through: update_order_row returns True and the handler answers
RowUpdated(u) ==
    /\ pc[u] = "write"
    /\ worksheet[u]
    /\ \E clock \in Clocks :
         \E calls \in {CellWrites(BuildUpdates(confirming[u][1], clock))} :
            /\ progress[u] = Len(calls)
            /\ saved' = [saved EXCEPT ![u] =
                            Some([order |-> confirming[u][1], row |-> alloc[u][1].row,
                                  calls |-> calls, success |-> TRUE])]
    /\ pending' = [pending EXCEPT ![u] = None]
    /\ reply' = [reply EXCEPT ![u] = Reply("order_saved", Some(FinalTotal(confirming[u][1])))]
    /\ pc' = [pc EXCEPT ![u] = "idle"]
    /\ progress' = [progress EXCEPT ![u] = 0]
    /\ UNCHANGED <<client, inbox, handled, order, confirming, alloc, status, sheet, keyboards,
                   backlog, worksheet>>

\* a call of the ledger's API that never returns: no timeout is set on any of them
GridHangs(u) ==
    /\ pc[u] \in {"connect", "allocate", "write"}
    /\ pc' = [pc EXCEPT ![u] = "hung"]
    /\ UNCHANGED <<client, inbox, handled, order, pending, reply, confirming, alloc, saved, status,
                   sheet, keyboards, backlog, worksheet, progress>>

(***************************************************************************)
(* _cancel_order, and the next update of the user                          *)
(***************************************************************************)
\* a variant that keeps the pending order
CancelOrderKeeping(u) ==
    /\ pc[u] = "idle"
    /\ keyboards[u] > 0
    /\ keyboards' = [keyboards EXCEPT ![u] = @ - 1]
    /\ reply' = [reply EXCEPT ![u] = Reply("order_cancelled", None)]
    /\ UNCHANGED <<client, inbox, handled, order, pending, pc, confirming, alloc, saved, status,
                   sheet, backlog, worksheet, progress>>

CancelOrder(u) ==
    /\ pc[u] = "idle"
    /\ keyboards[u] > 0
    /\ keyboards' = [keyboards EXCEPT ![u] = @ - 1]
    /\ reply' = [reply EXCEPT ![u] = Reply("order_cancelled", None)]
    /\ pending' = [pending EXCEPT ![u] = None]
    /\ UNCHANGED <<client, inbox, handled, order, pc, confirming, alloc, saved, status, sheet,
                   backlog, worksheet, progress>>

\* _show_details: the summary gives way to the details and a Back button; the
\* confidence of an order of the service is formatted as a percentage, which
\* raises for a confidence that is null, and the Application logs the error
ShowDetails(u) ==
    /\ pc[u] = "idle"
    /\ keyboards[u] > 0
    /\ IF pending[u] = None
       THEN /\ reply' = [reply EXCEPT ![u] = Reply("no_details", None)]
            /\ UNCHANGED keyboards
       ELSE IF "confidence" \in DOMAIN pending[u][1] /\ pending[u][1].confidence = None
       THEN /\ reply' = [reply EXCEPT ![u] = Reply("handler_error", None)]
            /\ UNCHANGED keyboards
       ELSE /\ reply' = [reply EXCEPT ![u] = Reply("details", None)]
            /\ keyboards' = [keyboards EXCEPT ![u] = @ - 1]
    /\ UNCHANGED <<client, inbox, handled, order, pending, pc, confirming, alloc, saved, status,
                   sheet, backlog, worksheet, progress>>

\* the user's next message arrives
NextUpdate(u) ==
    /\ inbox[u] = None
    /\ backlog[u] # <<>>
    /\ inbox' = [inbox EXCEPT ![u] = Some(Head(backlog[u]))]
    /\ backlog' = [backlog EXCEPT ![u] = Tail(backlog[u])]
    /\ UNCHANGED <<client, handled, order, pending, reply, pc, confirming, alloc, saved, status,
                   sheet, keyboards, worksheet, progress>>

(***************************************************************************)
(* /status, and the ledger's other editors                                 *)
(***************************************************************************)
\* variant: /status marks the last row of the grid while it looks for the next one
StatusMarking(u, oks) ==
    /\ status[u] = None
    /\ \E connected \in oks, readOk \in oks :
          IF connected
          THEN /\ status' = [status EXCEPT ![u] = Some(AllocResult(sheet, readOk))]
               /\ worksheet' = [worksheet EXCEPT ![u] = TRUE]
               /\ sheet' = SetCell(sheet, MaxRow, ColD, <<"x">>)
               /\ reply' = [reply EXCEPT ![u] = Reply("status_next_row", None)]
          ELSE /\ UNCHANGED <<status, worksheet, sheet>>
               /\ reply' = [reply EXCEPT ![u] = Reply("status_connection_failed", None)]
    /\ UNCHANGED <<progress, client, inbox, handled, order, pending, pc, confirming, alloc, saved,
                   keyboards, backlog>>

Status(u, oks) ==
    /\ status[u] = None
    /\ \E connected \in oks, readOk \in oks :
          IF connected
          THEN /\ status' = [status EXCEPT ![u] = Some(AllocResult(sheet, readOk))]
               /\ worksheet' = [worksheet EXCEPT ![u] = TRUE]
               /\ reply' = [reply EXCEPT ![u] = Reply("status_next_row", None)]
          ELSE /\ UNCHANGED <<status, worksheet>>
               /\ reply' = [reply EXCEPT ![u] = Reply("status_connection_failed", None)]
    /\ UNCHANGED <<progress, client, inbox, handled, order, pending, pc, confirming, alloc, saved, sheet,
                   keyboards, backlog>>

SheetEdit ==
    /\ \A u \in Users : status[u] = None
    /\ \E r \in 2..MaxRow, c \in EditCols, text \in EditTexts \cup {<<>>} :
          /\ sheet' = SetCell(sheet, r, c, text)
          /\ Cardinality(DOMAIN sheet') <= MaxCells
    /\ UNCHANGED <<progress, client, inbox, handled, order, pending, reply, pc, confirming, alloc, saved, status,
                   keyboards, backlog, worksheet>>

(***************************************************************************)
(* Specifications                                                          *)
(***************************************************************************)
\* one message is parsed and, if it is drafted, confirmed against a healthy ledger
InitParse ==
    /\ client \in BOOLEAN
    /\ inbox \in {[u \in Users |-> IF u = "u1" THEN Some(in) ELSE None] : in \in ParseInputs(client)}
    /\ backlog = [u \in Users |-> <<>>]
    /\ sheet = Header
    /\ InitCommon

NextParse ==
    \/ ProcessMessage("u1")
    \/ ConfirmOrder("u1")
    \/ Connect("u1", {TRUE})
    \/ FindNextRow("u1", {TRUE})
    \/ UpdateOrderRow("u1", {FALSE})

SpecParse == InitParse /\ [][NextParse]_vars

\* the ledger is edited by others, then /status asks for the next row
InitSheet ==
    /\ client = FALSE
    /\ inbox = [u \in Users |-> None]
    /\ backlog = [u \in Users |-> <<>>]
    /\ sheet = Header
    /\ InitCommon

NextSheet ==
    \/ SheetEdit
    \/ Status("u1", BOOLEAN)

SpecSheet == InitSheet /\ [][NextSheet]_vars

\* what one user sends in a row, and the ledgers the bot may find: new, with one
\* order and a remark in column F of the row after it, and with an order in the
\* row that the allocator falls back to
LifeMessages == {<<"2", " ", "P", "-", "C", "H", "Z", " ", "q", "c">>, <<"1", " ", "2", "L", "-", "O", "G", " ", "f", "o", "r", " ", "a", "l">>, <<"h", "e", "l", "l", "o", " ", "p", "o">>}
Backlogs == SeqsUpTo({Update(m, NoCall) : m \in LifeMessages}, MaxBacklog) \ {<<>>}
LedgerGrids ==
    { Header,
      [rc \in {<<1, ColD>>, <<2, ColD>>, <<3, 6>>} |->
          IF rc[1] = 1 THEN <<"C", "u", "s", "t", "o", "m", "e", "r">> ELSE IF rc[1] = 2 THEN <<"B", "o">> ELSE <<"x">>],
      [rc \in {<<1, ColD>>, <<FallbackRow, ColW>>} |-> IF rc[1] = 1 THEN <<"C", "u", "s", "t", "o", "m", "e", "r">> ELSE <<"3">>] }

\* one user drafts, confirms and cancels against a ledger whose calls may fail
InitLife ==
    /\ client = FALSE
    /\ inbox = [u \in Users |-> None]
    /\ backlog \in {[u \in Users |-> IF u = "u1" THEN b ELSE <<>>] : b \in Backlogs}
    /\ sheet \in LedgerGrids
    /\ InitCommon

NextLife ==
    \/ NextUpdate("u1")
    \/ ProcessMessage("u1")
    \/ ConfirmOrder("u1")
    \/ CancelOrder("u1")
    \/ Connect("u1", BOOLEAN)
    \/ FindNextRow("u1", BOOLEAN)
    \/ UpdateOrderRow("u1", {TRUE})

SpecLife == InitLife /\ [][NextLife]_vars

\* one user sends an order and, before a button of its summary is pressed or
\* after, a second message
FirstMessage == <<"2", " ", "P", "-", "C", "H", "Z", " ", "q", "c">>
InitSlot ==
    /\ client = FALSE
    /\ inbox = [u \in Users |-> None]
    /\ backlog \in {[u \in Users |-> IF u = "u1"
                                     THEN <<Update(FirstMessage, NoCall), Update(m, NoCall)>>
                                     ELSE <<>>] : m \in LifeMessages}
    /\ sheet \in LedgerGrids
    /\ InitCommon

SpecSlot == InitSlot /\ [][NextLife]_vars

\* two processes of the bot (a second deployment, or debug_bot.py), one per user,
\* confirm against the same healthy ledger; within one process the updates are
\* handled one after the other
RaceMessages == {<<"2", " ", "P", "-", "C", "H", "Z", " ", "f", "o", "r", " ", "a", "l">>, <<"1", " ", "2", "L", "-", "O", "G", " ", "q", "c">>}
InitRace ==
    /\ client = FALSE
    /\ inbox \in {[u \in Users |-> Some(Update(IF u = "u1" THEN m1 ELSE m2, NoCall))] :
                     m1 \in RaceMessages, m2 \in RaceMessages}
    /\ backlog = [u \in Users |-> <<>>]
    /\ sheet \in LedgerGrids
    /\ InitCommon

NextRace ==
    \E u \in Users :
        \/ ProcessMessage(u)
        \/ ConfirmOrder(u)
        \/ Connect(u, {TRUE})
        \/ FindNextRow(u, {TRUE})
        \/ UpdateCell(u)
        \/ RowUpdated(u)

SpecRace == InitRace /\ [][NextRace]_vars

\* the life of an order when a call of the ledger's API may never return; a
\* handler of Confirm that has started goes on whenever a call returns
NextLive == NextLife \/ GridHangs("u1")
Fairness ==
    /\ WF_vars(Connect("u1", BOOLEAN))
    /\ WF_vars(FindNextRow("u1", BOOLEAN))
    /\ WF_vars(UpdateOrderRow("u1", {TRUE}))
SpecLive == InitLife /\ [][NextLive]_vars /\ Fairness

\* two users of one process get answers of the service that differ in confidence
\* and notes only; the process handles one update at a time
Diagnostics == {None, Some(95), Some(40)} \X {None, Some(<<"o", "k">>)}
PairBases ==
    {JsonDict(TRUE, Some(<<ItemData(Some(<<"P", "-", "C", "H", "Z">>), Some(2))>>), Some(<<"a", "l">>), pm,
              Some(<<"Q", "u", "e", "z", "o", "n", " ", "C", "i", "t", "y">>), pct, None, None, None, None, None) :
        pm \in {None, Some(<<"G", "c", "a", "s", "h">>)}, pct \in {None, Some(41)}}
WithDiagnostics(d, cn) == [d EXCEPT !.confidence = cn[1], !.notes = cn[2]]
InitPair ==
    /\ client = TRUE
    /\ inbox \in {[u \in Users |->
                     Some(Update(<<"2", " ", "P", "-", "C", "H", "Z", " ", "q", "c">>,
                                 TextOutcome(ObjText(WithDiagnostics(d, IF u = "u1" THEN c1 ELSE c2)))))] :
                     d \in PairBases, c1 \in Diagnostics, c2 \in Diagnostics}
    /\ backlog = [u \in Users |-> <<>>]
    /\ sheet = Header
    /\ InitCommon

\* no handler of the process is running for another user
Turn(u) == \A v \in Users \ {u} : pc[v] = "idle"
NextPair ==
    \E u \in Users :
        \/ Turn(u) /\ ProcessMessage(u)
        \/ Turn(u) /\ ShowDetails(u)
        \/ Turn(u) /\ ConfirmOrder(u)
        \/ Turn(u) /\ Connect(u, {TRUE})
        \/ Turn(u) /\ FindNextRow(u, {TRUE})
        \/ Turn(u) /\ UpdateOrderRow(u, {FALSE})

SpecPair == InitPair /\ [][NextPair]_vars

\* every handler of the bot on one message of one user: the message, the three
\* buttons of its summary, and /status between two handlers
\* the messages of the lifecycle and one that names a product twice
ButtonMessages == LifeMessages \cup {<<"1", " ", "P", "-", "C", "H", "Z", " ", "2", " ", "P", "-", "C", "H", "Z">>}
InitButtons ==
    /\ client = FALSE
    /\ inbox \in {[u \in Users |-> IF u = "u1" THEN Some(Update(m, NoCall)) ELSE None] :
                     m \in ButtonMessages}
    /\ backlog = [u \in Users |-> <<>>]
    /\ sheet \in LedgerGrids
    /\ InitCommon

NextButtons ==
    \/ ProcessMessage("u1")
    \/ ShowDetails("u1")
    \/ CancelOrder("u1")
    \/ ConfirmOrder("u1")
    \/ pc["u1"] = "idle" /\ Status("u1", BOOLEAN)
    \/ Connect("u1", BOOLEAN)
    \/ FindNextRow("u1", BOOLEAN)
    \/ UpdateOrderRow("u1", {TRUE})

SpecButtons == InitButtons /\ [][NextButtons]_vars

Init == InitParse \/ InitSheet \/ InitLife \/ InitRace \/ InitPair \/ InitButtons \/ InitSlot
Next == NextParse \/ NextSheet \/ NextLive \/ NextRace \/ NextPair \/ NextButtons
Spec == Init /\ [][Next]_vars

(***************************************************************************)
(* Properties                                                              *)
(***************************************************************************)
Amount(opt) == IF opt = None THEN 0 ELSE opt[1]
Blank(text) == \A k \in 1..Len(text) : IsSpace(text[k])
FromExternal(o) == "confidence" \in DOMAIN o
Parsed(u) == handled[u] # None /\ order[u] # None
\* process_message has just answered
JustParsed(u) == Parsed(u) /\ reply[u].kind \in {"order_summary", "no_valid_products"}
HasItem(items, code, quantity) ==
    \E k \in 1..Len(items) : items[k].product.code = code /\ items[k].quantity = quantity

\* ---- C1 ----
QuantityCols == {ColN, ColO, ColP, ColQ, ColT, ColU, ColV, ColW}
RowOccupied(grid, r) ==
    \/ ~Blank(CellAt(grid, r, ColD))
    \/ \E c \in QuantityCols : ~Blank(CellAt(grid, r, c)) /\ CellAt(grid, r, c) # <<"0">>
HighestOccupied(grid) ==
    LET occupied == {r \in {rc[1] : rc \in DOMAIN grid} : r >= 2 /\ r <= ScanRows /\ RowOccupied(grid, r)}
    IN  IF occupied = {} THEN 1 ELSE MaxOf(occupied)

\* C1: whenever the allocator has read the grid, the row it returns is one more
\* than the highest row after the header whose name cell is not blank or one of
\* whose eight quantity cells is neither blank nor the literal 0; for a grid with
\* no such row it returns 2.
C1_NextRow ==
    \A u \in Users :
        (status[u] # None /\ status[u][1].read_ok)
            => status[u][1].row = HighestOccupied(status[u][1].seen) + 1

\* C1: the allocator answered 4 for a grid whose row 2 holds only a name of
\* blanks and whose row 3 holds only a quantity
C1_GapRowSeen ==
    /\ status["u1"] # None
    /\ status["u1"][1].read_ok
    /\ status["u1"][1].row = 4
    /\ CellAt(status["u1"][1].seen, 2, ColD) = <<" ">>
    /\ CellAt(status["u1"][1].seen, 3, ColD) = <<>>
    /\ CellAt(status["u1"][1].seen, 3, ColN) = <<"2">>

\* ---- C2 ----
\* C2: every item of every parsed order references a product of the catalog and
\* has a quantity above zero.
C2_ItemsValid ==
    \A u \in Users :
        order[u] # None =>
            \A k \in 1..Len(order[u][1].items) :
                /\ order[u][1].items[k].product \in {PRODUCTS[c] : c \in CodeSet}
                /\ order[u][1].items[k].quantity > 0

\* C2: the message 0 P-CHZ was parsed into an order that keeps the item with quantity 0
C2_ZeroQuantityKept ==
    /\ Parsed("u1")
    /\ handled["u1"][1].message = ZeroPouch
    /\ order["u1"][1].items = <<OrderItem(PRODUCTS[<<"P", "-", "C", "H", "Z">>], 0)>>

\* ---- C3 ----
\* the words of a message: the maximal runs without blanks, as <<first, last>>
Words(s) ==
    {w \in (1..Len(s)) \X (1..Len(s)) :
        /\ w[1] <= w[2]
        /\ \A k \in w[1]..w[2] : ~IsSpace(s[k])
        /\ (w[1] = 1 \/ IsSpace(s[w[1] - 1]))
        /\ (w[2] = Len(s) \/ IsSpace(s[w[2] + 1]))}
NextWord(s, v, w) == v[2] < w[1] /\ \A k \in (v[2] + 1)..(w[1] - 1) : IsSpace(s[k])
IsQuantity(text) == StrIsDigit(text) /\ ToInt(text) > 0
IsCode(text) == StrUpper(text) \in CodeSet

\* C3: when a message holds, as two words in a row, a quantity above zero and a
\* catalog code, in either order, the Deterministic Extractor's items hold that
\* product with that quantity.
C3_CodeWithQuantity ==
    \A u \in Users :
        (JustParsed(u) /\ ~FromExternal(order[u][1])) =>
            LET s == order[u][1].raw_message
                items == order[u][1].items
            IN  \A v \in Words(s), w \in Words(s) :
                    NextWord(s, v, w) =>
                        LET a == SubSeq(s, v[1], v[2])
                            b == SubSeq(s, w[1], w[2])
                        IN  /\ (IsQuantity(a) /\ IsCode(b)) => HasItem(items, StrUpper(b), ToInt(a))
                            /\ (IsCode(a) /\ IsQuantity(b)) => HasItem(items, StrUpper(a), ToInt(b))

\* C3: the message P-CHZ 2L-OG 3 was parsed without the item 3 x 2L-OG
C3_TubAfterPouchLost ==
    /\ JustParsed("u1")
    /\ ~client
    /\ handled["u1"][1].message = <<"P", "-", "C", "H", "Z", " ", "2", "L", "-", "O", "G", " ", "3">>
    /\ ~HasItem(order["u1"][1].items, <<"2", "L", "-", "O", "G">>, 3)
    /\ order["u1"][1].items = <<OrderItem(PRODUCTS[<<"P", "-", "C", "H", "Z">>], 2)>>

\* ---- C4 ----
\* C4: scenario A, which names its products by flavor keyword, yields 2 x Cheese
\* Pouch and 1 x BBQ Tub with a total of 590, and is not answered as a failed parse.
C4_FlavorKeywords ==
    \A u \in Users :
        (Parsed(u) /\ ~FromExternal(order[u][1]) /\ order[u][1].raw_message = ScenarioA) =>
            /\ order[u][1].items = <<OrderItem(PRODUCTS[<<"P", "-", "C", "H", "Z">>], 2), OrderItem(PRODUCTS[<<"2", "L", "-", "B", "B", "Q">>], 1)>>
            /\ order[u][1].total_amount = 590
            /\ reply[u].kind # "no_valid_products"

\* C4: scenario A was parsed into an order without items and answered as a failed parse
C4_ScenarioAFailed ==
    /\ Parsed("u1")
    /\ ~client
    /\ handled["u1"][1].message = ScenarioA
    /\ order["u1"][1].items = <<>>
    /\ order["u1"][1].total_amount = 0
    /\ reply["u1"].kind = "no_valid_products"

\* ---- C5 ----
UnitPrice(product) == IF product.size = "Pouch" THEN 150 ELSE 290
RECURSIVE ItemsTotal(_)
ItemsTotal(items) ==
    IF items = <<>> THEN 0
    ELSE Head(items).quantity * UnitPrice(Head(items).product) + ItemsTotal(Tail(items))
Payable(o) == o.total_amount + Amount(o.shipping_fee) - Amount(o.discount_amount)

\* C5: the total of every parsed order is the sum of quantity times unit price
\* over its items, without shipping fee or discount, and the total shown with the
\* summary and with the saved order is that total plus the shipping fee minus the
\* discount.
C5_TotalAmount ==
    \A u \in Users :
        /\ order[u] # None => order[u][1].total_amount = ItemsTotal(order[u][1].items)
        /\ reply[u].kind = "order_summary" => reply[u].total = Some(Payable(order[u][1]))
        /\ reply[u].kind = "order_saved" => reply[u].total = Some(Payable(saved[u][1].order))

\* C5: scenario B was saved and shown with 290 + 50 - 43 = 297
C5_ScenarioBShown ==
    /\ reply["u1"].kind = "order_saved"
    /\ saved["u1"][1].order.raw_message = ScenarioB
    /\ saved["u1"][1].order.total_amount = 290
    /\ saved["u1"][1].order.shipping_fee = Some(50)
    /\ saved["u1"][1].order.discount_amount = Some(43)
    /\ reply["u1"].total = Some(297)

\* ---- C6 ----
\* C6: in every parsed order the seller is Ferdie exactly when the location is
\* Quezon City, Nina exactly when it is Paranaque, and absent otherwise.
C6_SellerFromLocation ==
    \A u \in Users :
        order[u] # None =>
            /\ (order[u][1].auto_sold_by = Some(<<"F", "e", "r", "d", "i", "e">>))
                    <=> (order[u][1].customer_location = Some(<<"Q", "u", "e", "z", "o", "n", " ", "C", "i", "t", "y">>))
            /\ (order[u][1].auto_sold_by = Some(<<"N", "i", "n", "a">>))
                    <=> (order[u][1].customer_location = Some(<<"P", "a", "r", "a", "n", "a", "q", "u", "e">>))
            /\ order[u][1].auto_sold_by \in {None, Some(<<"F", "e", "r", "d", "i", "e">>), Some(<<"N", "i", "n", "a">>)}

\* C6: an accepted response that names Nina as the seller and Quezon City as the
\* location became an order sold by Ferdie
C6_ExternalSellerIgnored ==
    /\ Parsed("u1")
    /\ FromExternal(order["u1"][1])
    /\ Len(handled["u1"][1].response.text) = 3
    /\ Is(handled["u1"][1].response.text[2], "members")
    /\ handled["u1"][1].response.text[2][2].sold_by = Some(<<"N", "i", "n", "a">>)
    /\ handled["u1"][1].response.text[2][2].customer_location = Some(<<"Q", "u", "e", "z", "o", "n", " ", "C", "i", "t", "y">>)
    /\ order["u1"][1].auto_sold_by = Some(<<"F", "e", "r", "d", "i", "e">>)

\* ---- C7 ----
\* C7: in every order of the Deterministic Extractor with a discount percentage p
\* and a total t, the discount amount is the integer part of t * p / 100.
C7_DiscountFloor ==
    \A u \in Users :
        (order[u] # None /\ ~FromExternal(order[u][1]) /\ order[u][1].discount_percentage # None) =>
            order[u][1].discount_amount
                = Some((order[u][1].total_amount * order[u][1].discount_percentage[1]) \div 100)

\* C7: 82% off a total of 150 was parsed into a discount of 122, where 150 * 82 / 100 is 123
C7_FloatTruncation ==
    /\ Parsed("u1")
    /\ ~client
    /\ handled["u1"][1].message = <<"8", "2", "%", " ", "o", "f", "f", " ", "1", " ", "P", "-", "C", "H", "Z">>
    /\ order["u1"][1].total_amount = 150
    /\ order["u1"][1].discount_percentage = Some(82)
    /\ order["u1"][1].discount_amount = Some(122)

\* ---- C8 ----
\* no client, a call that raised, a response without content, or a text that
\* none of the strategies can parse
ServiceFailed(in) ==
    \/ in.response.kind \in {"nocall", "raise", "empty"}
    \/ in.response.kind = "text" /\ ExtractJson(in.response.text).type = "none"

\* C8: every handled message has an order, and when the service is not configured,
\* raised, or returned text without JSON, that order is the Deterministic
\* Extractor's order for the same message, field for field.
C8_FallbackEqualsExtractor ==
    \A u \in Users :
        /\ handled[u] # None => order[u] # None
        /\ (JustParsed(u) /\ (~client \/ ServiceFailed(handled[u][1])))
                => order[u][1] = BasicParse(handled[u][1].message)

\* C8: the call raised and the order is the extractor's order of 2 P-CHZ qc
C8_RaisedCallFellBack ==
    /\ JustParsed("u1")
    /\ client
    /\ handled["u1"][1].response.kind = "raise"
    /\ order["u1"][1].raw_message = <<"2", " ", "P", "-", "C", "H", "Z", " ", "q", "c">>
    /\ order["u1"][1].items = <<OrderItem(PRODUCTS[<<"P", "-", "C", "H", "Z">>], 2)>>
    /\ order["u1"][1].auto_sold_by = Some(<<"F", "e", "r", "d", "i", "e">>)
    /\ ~FromExternal(order["u1"][1])

\* ---- C9 ----
YieldsItems(j) == j.type = "dict" /\ ~j.empty /\ j.data.has_items
\* the first of the three strategies, in their order, whose value has the key items
FirstWithItems(text) ==
    IF YieldsItems(Strategy1(text)) THEN Strategy1(text)
    ELSE IF YieldsItems(Strategy2(text)) THEN Strategy2(text)
    ELSE IF YieldsItems(JsonLoads(text)) THEN JsonLoads(text)
    ELSE NoJson

\* C9: an order is built from the response only if one of the three strategies,
\* in their order, yields a JSON value with the key items, and then from that value;
\* every other order is the Deterministic Extractor's order of the original message.
C9_ReconcilerAcceptance ==
    \A u \in Users :
        JustParsed(u) =>
            LET in == handled[u][1]
                o == order[u][1]
            IN  /\ FromExternal(o) =>
                    /\ client
                    /\ in.response.kind = "text"
                    /\ FirstWithItems(in.response.text).type = "dict"
                    /\ o = CreateOrderFromJson(FirstWithItems(in.response.text).data, in.message)
                /\ ~FromExternal(o) => o = BasicParse(in.message)

\* C9: of an object without items followed by a fenced object with items, the
\* second strategy yielded the fenced one, and the order was built from it
C9_FencedObjectAccepted ==
    /\ JustParsed("u1")
    /\ handled["u1"][1].response.kind = "text"
    /\ handled["u1"][1].response.text = ObjText(DictNoItems) \o FencedText(DictB)
    /\ Strategy1(handled["u1"][1].response.text).type = "none"
    /\ FromExternal(order["u1"][1])
    /\ order["u1"][1].items = <<OrderItem(PRODUCTS[<<"P", "-", "B", "B", "Q">>], 3)>>

\* C9: an object without the key items was answered with the extractor's order
C9_NoItemsKeyFellBack ==
    /\ JustParsed("u1")
    /\ handled["u1"][1].response.kind = "text"
    /\ handled["u1"][1].response.text = ObjText(DictNoItems)
    /\ ~FromExternal(order["u1"][1])

\* ---- C10 ----
ExpectedColumns(o) ==
    {ColC, ColD, ColH, ColJ, ColK}
        \cup (IF o.auto_sold_by # None THEN {ColE} ELSE {})
        \cup (IF o.payment_method # None THEN {ColG} ELSE {})
        \cup {ProductColumn(o.items[k].product.code) : k \in 1..Len(o.items)}
        \cup (IF Amount(o.shipping_fee) > 0 THEN {ColZ} ELSE {})
        \cup (IF Amount(o.discount_amount) > 0 THEN {ColAA} ELSE {})
WrittenColumns(calls) == {calls[k][1] : k \in 1..Len(calls)}
WriteSetAsSpecified(s) ==
    /\ WrittenColumns(s.calls) = ExpectedColumns(s.order)
    /\ \A k \in 1..Len(s.calls) :
          /\ ValTruthy(s.calls[k][2])
          /\ s.calls[k][1] = ColD =>
                s.calls[k][2] = StrVal(IF s.order.customer_name = None THEN <<"U", "n", "k", "n", "o", "w", "n">>
                                       ELSE s.order.customer_name[1])
          /\ s.calls[k][1] = ColH => s.calls[k][2] = StrVal(<<"U", "n", "p", "a", "i", "d">>)

\* C10: the cells written for a saved order are the date, the name, the payment
\* status, the note and the tag, the seller iff one is assigned, the payment
\* method iff one was detected, the quantity cell of each SKU among the items, the
\* shipping cell iff the fee is above zero and the discount cell iff the discount
\* is above zero; no falsy value is written.
C10_WriteSet ==
    \A u \in Users :
        (saved[u] # None /\ saved[u][1].success) => WriteSetAsSpecified(saved[u][1])

\* C10: the order of 0 P-CHZ was saved without a cell for P-CHZ
C10_ZeroQuantityNotWritten ==
    /\ saved["u1"] # None
    /\ saved["u1"][1].success
    /\ saved["u1"][1].order.items = <<OrderItem(PRODUCTS[<<"P", "-", "C", "H", "Z">>], 0)>>
    /\ ColN \notin WrittenColumns(saved["u1"][1].calls)

\* C10, for the orders that C2 allows: with every quantity above zero the cells
\* written are the ones specified
C10_WriteSetOfValidItems ==
    \A u \in Users :
        (/\ saved[u] # None
         /\ saved[u][1].success
         /\ \A k \in 1..Len(saved[u][1].order.items) : saved[u][1].order.items[k].quantity > 0)
            => WriteSetAsSpecified(saved[u][1])

\* ---- C11 ----
\* the update_cell calls of the write set of the order that u is confirming
WriteSetOf(u) == CellWrites(BuildUpdates(confirming[u][1], CHOOSE clock \in Clocks : TRUE))
\* update_order_row returns to the handler, which answers
CommitReturns(u) == pc[u] = "write" /\ pc'[u] = "idle"
RowHolds(grid, row, calls) ==
    \A k \in 1..Len(calls) : CellAt(grid, row, calls[k][1]) = CellText(calls[k][2])

\* C11: the order is answered as saved only if the worksheet handle was there and
\* every cell write of the write set was made, and then the row holds every value;
\* when a cell write failed or the handle is missing, the failure reaches the user
\* as Save Failed.
C11_CommitSucceedsOnlyWhole ==
    [][\A u \in Users :
          CommitReturns(u) =>
             /\ reply'[u].kind \in {"order_saved", "save_failed"}
             /\ reply'[u].kind = "order_saved" =>
                   /\ worksheet[u]
                   /\ saved'[u][1].success
                   /\ saved'[u][1].calls = WriteSetOf(u)
                   /\ RowHolds(sheet', alloc[u][1].row, WriteSetOf(u))
             /\ (~worksheet[u] \/ saved'[u][1].calls # WriteSetOf(u)) =>
                   /\ reply'[u].kind = "save_failed"
                   /\ ~saved'[u][1].success]_vars

\* C11: the fourth cell write failed and the user was told Save Failed
C11_CellFailureReported ==
    /\ saved["u1"] # None
    /\ Len(saved["u1"][1].calls) = 3
    /\ ~saved["u1"][1].success
    /\ reply["u1"].kind = "save_failed"
    /\ pc["u1"] = "idle"

\* ---- C12 ----
\* C12: when update_order_row returns, either it reports success and the row
\* holds every value of the write set, or it reports failure and the grid is as
\* it was before the call: no partially written row.
C12_WriteSetAtomic ==
    [][\A u \in Users :
          CommitReturns(u) =>
             IF saved'[u][1].success
             THEN RowHolds(sheet', alloc[u][1].row, WriteSetOf(u))
             ELSE sheet' = sheet]_vars

\* C12: the save failed after the date and the name were written; the row keeps
\* them and has no payment status, note or tag
C12_PartialRowLeft ==
    /\ saved["u1"] # None
    /\ ~saved["u1"][1].success
    /\ reply["u1"].kind = "save_failed"
    /\ WrittenColumns(saved["u1"][1].calls) = {ColC, ColD}
    /\ CellAt(alloc["u1"][1].seen, saved["u1"][1].row, ColC) = <<>>
    /\ CellAt(alloc["u1"][1].seen, saved["u1"][1].row, ColD) = <<>>
    /\ RowHolds(sheet, saved["u1"][1].row, saved["u1"][1].calls)
    /\ CellAt(sheet, saved["u1"][1].row, ColH) = <<>>
    /\ CellAt(sheet, saved["u1"][1].row, ColK) = <<>>

\* ---- C13 ----
\* the handler of Confirm answers for good: saved, or failed
Persisted(u) == reply[u].kind = "order_saved"
FailureReported(u) == reply[u].kind \in {"connection_failed", "save_failed"}

\* C13: a pending order leaves the pending state only by Cancel or when it has
\* been persisted, and it is persisted only after the connection, the allocation
\* and the write all succeeded; when the connection or the write fails, the
\* failure is reported and the order stays pending.
C13_OrderLifecycle ==
    [][\A u \in Users :
          /\ (pending[u] # None /\ pending'[u] = None) =>
                \/ reply'[u].kind = "order_cancelled"
                \/ /\ Persisted(u)'
                   /\ pc[u] = "write"
                   /\ worksheet[u]
                   /\ alloc[u] # None
                   /\ saved'[u][1].success
                   /\ saved'[u][1].order = pending[u][1]
                   /\ saved'[u][1].row = alloc[u][1].row
                   /\ RowHolds(sheet', alloc[u][1].row, WriteSetOf(u))
          /\ (pc[u] # "idle" /\ pc'[u] = "idle") =>
                \/ Persisted(u)' /\ pending'[u] = None /\ saved'[u][1].success
                \/ FailureReported(u)' /\ pending'[u] = pending[u] /\ pending[u] # None
          /\ (pc[u] = "connect" /\ pc'[u] = "idle") => reply'[u].kind = "connection_failed"]_vars

\* C13: the write of Al's order failed after the date and the name were put in
\* row 2; the order was still pending, a later Confirm took it up again, and it was
\* persisted in row 3
C13_RetriedAfterFailure ==
    /\ Persisted("u1")
    /\ pending["u1"] = None
    /\ saved["u1"][1].success
    /\ saved["u1"][1].row = 3
    /\ saved["u1"][1].order.customer_name = Some(<<"A", "l">>)
    /\ CellAt(sheet, 2, ColD) = <<"A", "l">>
    /\ CellAt(sheet, 2, ColH) = <<>>
    /\ CellAt(sheet, 3, ColK) = <<"R", "e", "s", "e", "r", "v", "e", "d">>

\* ---- C14 ----
\* a press of a button of a summary: the handler of Cancel has answered, and a
\* Confirm that finds nothing pending
CancelPressed(u) == keyboards'[u] < keyboards[u] /\ reply'[u].kind = "order_cancelled"
ConfirmPressed(u) == keyboards'[u] < keyboards[u] /\ reply'[u].kind # "order_cancelled"

\* C14: Cancel, whatever the state of the order, leaves no pending order and
\* neither reads nor writes the grid; a Confirm that comes when nothing is pending
\* answers that there is no pending order and persists nothing.
C14_CancelUnconditional ==
    [][\A u \in Users :
          /\ CancelPressed(u) =>
                /\ pending'[u] = None
                /\ pc'[u] = "idle"
                /\ <<sheet, alloc, saved, worksheet>>' = <<sheet, alloc, saved, worksheet>>
          /\ (ConfirmPressed(u) /\ pending[u] = None) =>
                /\ reply'[u].kind = "no_pending_order"
                /\ pc'[u] = "idle"
                /\ pending'[u] = None
                /\ <<sheet, alloc, saved, worksheet>>' = <<sheet, alloc, saved, worksheet>>]_vars

\* C14: two summaries were shown, Cancel was pressed on one and Confirm on the
\* other afterwards: nothing was pending, and the ledger was never touched
C14_ConfirmAfterCancel ==
    /\ reply["u1"].kind = "no_pending_order"
    /\ pending["u1"] = None
    /\ saved["u1"] = None
    /\ alloc["u1"] = None
    /\ ~worksheet["u1"]
    /\ keyboards["u1"] = 0
    /\ sheet \in LedgerGrids

\* ---- C15 ----
\* process_message answers the message in the inbox
MessageAnswered(u) == inbox[u] # None /\ inbox'[u] = None
NoItems(o) == o # None /\ o[1].items = <<>>

\* C15: a message whose parse has no items is answered with No valid products
\* found, stores no pending order and offers nothing to confirm; no order without
\* items is ever pending, taken up by Confirm, or written to the ledger.
C15_EmptyOrderRejected ==
    [][\A u \in Users :
          /\ (MessageAnswered(u) /\ NoItems(order'[u])) =>
                /\ reply'[u].kind = "no_valid_products"
                /\ pending'[u] = pending[u]
                /\ keyboards'[u] = keyboards[u]
                /\ <<sheet, saved, confirming, pc>>' = <<sheet, saved, confirming, pc>>
          /\ ~NoItems(pending'[u])
          /\ ~NoItems(confirming'[u])
          /\ saved'[u] # None => saved'[u][1].order.items # <<>>]_vars

\* C15: hello po came after an order: it was answered with No valid products
\* found, and the order of before is still the pending one, with its buttons
C15_GreetingAfterOrder ==
    /\ NoItems(order["u1"])
    /\ reply["u1"].kind = "no_valid_products"
    /\ handled["u1"][1].message = <<"h", "e", "l", "l", "o", " ", "p", "o">>
    /\ pending["u1"] # None
    /\ pending["u1"][1].items # <<>>
    /\ keyboards["u1"] = 1
    /\ saved["u1"] = None

\* ---- C16 ----
\* u's update_order_row has made one more update_cell call
CellWritten(u) == progress'[u] = progress[u] + 1

\* C16: nothing keeps a second confirmation from allocating while the first has
\* allocated and not yet written its name, and every update_cell puts its value
\* in the cell of the allocated row whatever another confirmation has put there:
\* the later writer overwrites the earlier one.
C16_NoLockLaterWriterWins ==
    [][\A u \in Users :
          /\ CellWritten(u) =>
                LET call == WriteSetOf(u)[progress'[u]]
                IN  /\ CellAt(sheet', alloc[u][1].row, call[1]) = CellText(call[2])
                    /\ \A rc \in (DOMAIN sheet) \ {<<alloc[u][1].row, call[1]>>} :
                          rc \in DOMAIN sheet' /\ sheet'[rc] = sheet[rc]
          /\ (pc[u] = "allocate" /\ pc'[u] = "write") =>
                alloc'[u][1].row = LastRowWithData(WorksheetGet(sheet)) + 1]_vars

\* C16: both confirmations computed the same row and both answered Order Saved;
\* Al's name, written by the first, has been replaced by the name of the second,
\* whose row now also holds Al's two pouches
C16_SameRowOverwritten ==
    /\ saved["u1"] # None /\ saved["u2"] # None
    /\ saved["u1"][1].success /\ saved["u2"][1].success
    /\ saved["u1"][1].row = saved["u2"][1].row
    /\ saved["u1"][1].order.customer_name = Some(<<"A", "l">>)
    /\ saved["u2"][1].order.customer_name = None
    /\ CellAt(sheet, saved["u1"][1].row, ColD) = <<"U", "n", "k", "n", "o", "w", "n">>
    /\ CellAt(sheet, saved["u1"][1].row, ColN) = <<"2">>
    /\ CellAt(sheet, saved["u1"][1].row, ColW) = <<"1">>

\* ---- C17 ----
\* C17: when the read of the grid fails, the allocator answers 526 whatever the
\* grid holds, and the grid is as it was.
C17_FallbackRow ==
    \A u \in Users :
        (status[u] # None /\ ~status[u][1].read_ok) =>
            /\ status[u][1].row = 526
            /\ sheet = status[u][1].seen

\* C17: the read failed on a grid whose last occupied row is 3, and the answer was
\* 526, not 4
C17_FallbackOnOccupiedGrid ==
    /\ status["u1"] # None
    /\ ~status["u1"][1].read_ok
    /\ HighestOccupied(status["u1"][1].seen) = 3
    /\ status["u1"][1].row = 526
    /\ sheet = status["u1"][1].seen

\* ---- C18 ----
\* C18: the row that a confirmation writes to was unoccupied (blank name, no
\* quantity other than 0) in the grid as it was when the row was allocated,
\* whether or not the allocator could read the grid.
C18_NeverClobbers ==
    [][\A u \in Users :
          (CommitReturns(u) /\ saved'[u][1].calls # <<>>) =>
              ~RowOccupied(alloc[u][1].seen, alloc[u][1].row)]_vars

\* C18: the read failed, the order went to row 526, which held three tubs of an
\* earlier order, and the quantity was overwritten with 1
C18_FallbackRowClobbered ==
    /\ saved["u1"] # None
    /\ saved["u1"][1].success
    /\ saved["u1"][1].row = 526
    /\ ~alloc["u1"][1].read_ok
    /\ CellAt(alloc["u1"][1].seen, 526, ColW) = <<"3">>
    /\ CellAt(sheet, 526, ColW) = <<"1">>
    /\ pc["u1"] = "idle"

\* ---- C19 ----
ConfirmEnded(u) ==
    /\ pc[u] = "idle"
    /\ \/ Persisted(u)
       \/ FailureReported(u) /\ pending[u] # None

\* C19: no Confirm hangs: every Confirm of a pending order eventually ends,
\* persisted or with the failure reported and the order still pending, also when
\* a call of the grid never returns.
C19_ConfirmNeverHangs ==
    \A u \in Users : (pc[u] = "connect") ~> ConfirmEnded(u)

\* C19: the read of the grid never returned; the handler of Confirm stands at
\* Finding next available row, and the order is pending
C19_ConfirmNeverEnds ==
    /\ pc["u1"] = "hung"
    /\ reply["u1"].kind = "step_2"
    /\ pending["u1"] # None
    /\ saved["u1"] = None

\* ---- C20 ----
BothPersisted == \A u \in Users : saved[u] # None /\ saved[u][1].success /\ pc[u] = "idle"
\* the highest occupied row before the two confirmations: the first to allocate saw it
PreviousHighest == MinOf({HighestOccupied(alloc[u][1].seen) : u \in Users})
NewRows == {saved[u][1].row : u \in Users}
\* v read the grid while u was writing: u's row had its name and not yet its tag
Overlapped(u, v) ==
    /\ CellAt(alloc[v][1].seen, alloc[u][1].row, ColD) # <<>>
    /\ CellAt(alloc[v][1].seen, alloc[u][1].row, ColK) = <<>>
    /\ CellAt(alloc[u][1].seen, alloc[u][1].row, ColD) = <<>>
RowSkipped ==
    \E r \in (PreviousHighest + 1)..(MaxOf(NewRows) - 1) : ~RowOccupied(sheet, r)

DigitRuns(s) ==
    {r \in (1..Len(s)) \X (2..(Len(s) + 1)) :
        /\ r[1] < r[2]
        /\ \A k \in r[1]..(r[2] - 1) : IsDigit(s[k])
        /\ (r[1] = 1 \/ ~IsDigit(s[r[1] - 1]))
        /\ (r[2] = Len(s) + 1 \/ ~IsDigit(s[r[2]]))}
\* word stands at or after position k with only blanks in between
AfterBlanks(s, k, word) ==
    \E j \in k..(Len(s) + 1) : LitAt(s, j, word) /\ \A x \in k..(j - 1) : IsSpace(s[x])
\* word ends before position k with only blanks in between
BeforeBlanks(s, k, word) ==
    \E j \in 1..k : LitAt(s, j, word) /\ j + Len(word) <= k
                     /\ \A x \in (j + Len(word))..(k - 1) : IsSpace(s[x])
\* the runs of digits that the discount pattern p recovers
DiscountRuns(p, s) ==
    {r \in DigitRuns(s) :
        CASE p = 1 -> LitAt(s, r[2], <<"%">>) /\ AfterBlanks(s, r[2] + 1, <<"o", "f", "f">>)
          [] p = 2 -> LitAt(s, r[2], <<"%">>) /\ AfterBlanks(s, r[2] + 1, <<"d", "i", "s", "c", "o", "u", "n", "t">>)
          [] p = 3 -> LitAt(s, r[2], <<"%">>)
          [] p = 4 -> AfterBlanks(s, r[2], <<"o", "f", "f">>)
          [] p = 5 -> BeforeBlanks(s, r[1], <<"d", "i", "s", "c", "o", "u", "n", "t">>) /\ LitAt(s, r[2], <<"%">>)
          [] p = 6 -> BeforeBlanks(s, r[1], <<"d", "i", "s", "c", "o", "u", "n", "t">>)}
\* the number of the leftmost run of the first pattern, in the order of the list, that has one
FirstDiscountNumber(s) ==
    LET p == MinOf({q \in 1..6 : DiscountRuns(q, s) # {}})
        r == CHOOSE x \in DiscountRuns(p, s) : \A y \in DiscountRuns(p, s) : x[1] <= y[1]
    IN  ToInt(Slice(s, r[1], r[2]))
HasDiscountKeyword(s) ==
    \E w \in {<<"d", "i", "s", "c", "o", "u", "n", "t">>, <<"d", "i", "s", "k", "a", "r", "t", "e">>, <<"b", "a", "w", "a", "s">>} : \E j \in 1..Len(s) : LitAt(s, j, w)

\* C21: in every order of the Deterministic Extractor the discount percentage is
\* the number recovered by the first of the six patterns, in the order of the
\* list, that matches anywhere in the lower-cased text; with no such pattern and a
\* bare keyword discount, diskarte or bawas, the percentage and the amount are 0;
\* with neither, both are null.
C21_DiscountRule ==
    \A u \in Users :
        (Parsed(u) /\ ~FromExternal(order[u][1])) =>
            LET s == StrLower(handled[u][1].message)
                o == order[u][1]
            IN  IF \E q \in 1..6 : DiscountRuns(q, s) # {}
                THEN /\ o.discount_percentage = Some(FirstDiscountNumber(s))
                     /\ o.discount_amount # None
                ELSE IF HasDiscountKeyword(s)
                THEN o.discount_percentage = Some(0) /\ o.discount_amount = Some(0)
                ELSE o.discount_percentage = None /\ o.discount_amount = None

\* C21: in 1 P-CHZ 5 off 20% the third pattern took 20 although the fourth finds
\* 5 further left
C21_PatternOrderWins ==
    /\ Parsed("u1")
    /\ ~client
    /\ handled["u1"][1].message = <<"1", " ", "P", "-", "C", "H", "Z", " ", "5", " ", "o", "f", "f", " ", "2", "0", "%">>
    /\ DiscountRuns(4, handled["u1"][1].message) # {}
    /\ order["u1"][1].discount_percentage = Some(20)

\* ---- C22 ----
\* the candidate that the order of u was built from
Candidate(u) == FirstWithItems(handled[u][1].response.text).data
CandidateAccepted(u) == Parsed(u) /\ FromExternal(order[u][1])

\* C22: in every order built from an accepted candidate, a discount percentage
\* that is present, 0 included, with no discount amount gives the amount
\* floor(total * percentage / 100) of the total of the filtered items; a discount
\* amount that is present, 0 included, is kept as it is.
C22_ReconcilerDiscount ==
    \A u \in Users :
        CandidateAccepted(u) =>
            LET d == Candidate(u)
                o == order[u][1]
            IN  /\ o.total_amount = ItemsTotal(o.items)
                /\ (d.discount_percentage # None /\ d.discount_amount = None) =>
                      o.discount_amount
                          = Some((o.total_amount * d.discount_percentage[1]) \div 100)
                /\ d.discount_amount # None => o.discount_amount = d.discount_amount

\* C22: a candidate with the percentage 0 and no amount became an order without
\* a discount amount
C22_ZeroPercentNoAmount ==
    /\ CandidateAccepted("u1")
    /\ Candidate("u1").discount_percentage = Some(0)
    /\ Candidate("u1").discount_amount = None
    /\ order["u1"][1].discount_percentage = Some(0)
    /\ order["u1"][1].discount_amount = None

\* C22: of a candidate with the percentage 41 and the amount 0 on a total of 300
\* the amount was replaced by 122
C22_ZeroAmountReplaced ==
    /\ CandidateAccepted("u1")
    /\ Candidate("u1").discount_percentage = Some(41)
    /\ Candidate("u1").discount_amount = Some(0)
    /\ order["u1"][1].total_amount = 300
    /\ order["u1"][1].discount_amount = Some(122)

\* ---- C23 ----
\* the six clusters in their order: the method and its keywords
PaymentClusters ==
    << <<<<"G", "c", "a", "s", "h">>, {<<"g", "c", "a", "s", "h">>, <<"g", "-", "c", "a", "s", "h">>, <<"g", " ", "c", "a", "s", "h">>}>>,
       <<<<"B", "P", "I">>, {<<"b", "p", "i">>}>>,
       <<<<"M", "a", "y", "a">>, {<<"m", "a", "y", "a">>, <<"p", "a", "y", "m", "a", "y", "a">>, <<"p", "a", "y", " ", "m", "a", "y", "a">>}>>,
       <<<<"C", "a", "s", "h">>, {<<"c", "a", "s", "h">>, <<"c", "o", "d">>, <<"c", "a", "s", "h", " ", "o", "n", " ", "d", "e", "l", "i", "v", "e", "r", "y">>, <<"b", "a", "y", "a", "d", " ", "c", "a", "s", "h">>}>>,
       <<<<"B", "D", "O">>, {<<"b", "d", "o">>}>>,
       <<<<"O", "t", "h", "e", "r", "s">>, {<<"t", "r", "a", "n", "s", "f", "e", "r">>, <<"b", "a", "n", "k">>, <<"o", "n", "l", "i", "n", "e">>}>> >>
ClusterPresent(k, s) ==
    \E w \in PaymentClusters[k][2] : \E j \in 1..Len(s) : LitAt(s, j, w)

\* C23: in every order of the Deterministic Extractor the payment method is that
\* of the first cluster, in the order Gcash, BPI, Maya, Cash, BDO, Others, one
\* of whose keywords is in the lower-cased text, and null when no cluster has one.
C23_PaymentRule ==
    \A u \in Users :
        (Parsed(u) /\ ~FromExternal(order[u][1])) =>
            LET s == StrLower(handled[u][1].message)
                present == {k \in 1..6 : ClusterPresent(k, s)}
            IN  order[u][1].payment_method
                    = IF present = {} THEN None ELSE Some(PaymentClusters[MinOf(present)][1])

\* C23: the only payment word of 2 P-CHZ gcash is gcash, which holds the keyword
\* cash of the fourth cluster, and the method is Gcash
C23_GcashNotCash ==
    /\ Parsed("u1")
    /\ ~client
    /\ handled["u1"][1].message = <<"2", " ", "P", "-", "C", "H", "Z", " ", "g", "c", "a", "s", "h">>
    /\ ClusterPresent(4, handled["u1"][1].message)
    /\ order["u1"][1].payment_method = Some(<<"G", "c", "a", "s", "h">>)

\* ---- C24 ----
\* the fields of an order other than the diagnostics
CoreFields(o) == [f \in (DOMAIN o) \ {"confidence", "parsing_notes"} |-> o[f]]
DetailsPressed(u) == reply[u].kind \in {"details", "handler_error"}

\* C24: two users whose accepted candidates differ only in confidence and notes
\* get orders that agree in every other field and the same decision between the
\* candidate and the fallback; after the same press on the summary they are in
\* the same state; and their confirmed orders give the same cell writes.
C24_DiagnosticsInert ==
    /\ (JustParsed("u1") /\ JustParsed("u2")) =>
          /\ FromExternal(order["u1"][1]) = FromExternal(order["u2"][1])
          /\ CoreFields(order["u1"][1]) = CoreFields(order["u2"][1])
          /\ reply["u1"] = reply["u2"]
    /\ (DetailsPressed("u1") /\ DetailsPressed("u2")) =>
          /\ reply["u1"].kind = reply["u2"].kind
          /\ keyboards["u1"] = keyboards["u2"]
          /\ (pending["u1"] = None) = (pending["u2"] = None)
    /\ (saved["u1"] # None /\ saved["u2"] # None) =>
          /\ saved["u1"][1].calls = saved["u2"][1].calls
          /\ saved["u1"][1].success = saved["u2"][1].success

\* C24: the candidates differ in the confidence only, 95 for the first user and
\* null for the second; both pressed View Details: the first has the details and
\* no Confirm button left, the second has the summary with its buttons, and its
\* handler has raised
C24_NullConfidenceKeepsButtons ==
    /\ CandidateAccepted("u1") /\ CandidateAccepted("u2")
    /\ Candidate("u1").confidence = Some(95)
    /\ Candidate("u2").confidence = None
    /\ Candidate("u1").notes = Candidate("u2").notes
    /\ reply["u1"].kind = "details" /\ keyboards["u1"] = 0
    /\ reply["u2"].kind = "handler_error" /\ keyboards["u2"] = 1
    /\ pending["u2"] # None

\* ---- C25 ----
\* the columns of the column contract
ContractColumns == {ColC, ColD, ColE, ColG, ColH, ColJ, ColK, ColZ, ColAA} \cup QuantityCols

\* C25: when update_order_row returns, with success or with failure, every cell
\* of another row and every cell of the target row outside the columns C, D, E,
\* G, H, J, K, N, O, P, Q, T, U, V, W, Z and AA is as it was before the call.
C25_SparseWriteFrame ==
    [][\A u \in Users :
          CommitReturns(u) =>
              \A rc \in (DOMAIN sheet) \cup (DOMAIN sheet') :
                  (rc[1] # alloc[u][1].row \/ rc[2] \notin ContractColumns) =>
                      CellAt(sheet', rc[1], rc[2]) = CellAt(sheet, rc[1], rc[2])]_vars

\* C25: Al's order went to row 3, whose remark in column F is still there, as is
\* the order of row 2
C25_RemarkKept ==
    /\ saved["u1"] # None
    /\ saved["u1"][1].success
    /\ saved["u1"][1].row = 3
    /\ CellAt(alloc["u1"][1].seen, 3, 6) = <<"x">>
    /\ CellAt(sheet, 3, 6) = <<"x">>
    /\ CellAt(sheet, 2, ColD) = <<"B", "o">>
    /\ CellAt(sheet, 3, ColD) = <<"A", "l">>
    /\ CellAt(sheet, 3, ColW) = <<"1">>

\* ---- C26 ----
\* the handler of Confirm is running for u on the order that was pending
Confirming(u) == pc[u] \in {"connect", "allocate", "write"} /\ confirming[u] # None

\* C26: the grid changes only on a step of the handler of Confirm on a pending
\* order, at its write; processing a message, also one without products, Cancel,
\* View Details and /status change no cell, so that as long as no order has been
\* confirmed the grid is as it was found.
C26_WritesOnlyOnConfirm ==
    [][/\ sheet' # sheet => \E u \in Users : Confirming(u) /\ pc[u] = "write" /\ pending[u] # None
       /\ \A u \in Users :
             (\/ MessageAnswered(u)
              \/ CancelPressed(u)
              \/ reply'[u].kind \in {"details", "no_details", "handler_error"}
              \/ status'[u] # status[u]) => sheet' = sheet
       /\ (\A u \in Users : confirming'[u] = None) => sheet' \in LedgerGrids]_vars

\* C26: an order was drafted, /status called the allocator, and Cancel was
\* pressed: the grid is the one that was found
C26_CancelledLeavesNothing ==
    /\ reply["u1"].kind = "order_cancelled"
    /\ status["u1"] # None
    /\ pending["u1"] = None
    /\ order["u1"] # None /\ order["u1"][1].items # <<>>
    /\ confirming["u1"] = None
    /\ sheet \in LedgerGrids

\* ---- C27 ----
\* the sum of the quantities of the entries of one product in a list of items
RECURSIVE SkuQuantity(_, _)
SkuQuantity(items, code) ==
    IF items = <<>> THEN 0
    ELSE (IF Head(items).product.code = code THEN Head(items).quantity ELSE 0)
         + SkuQuantity(Tail(items), code)

\* the quantity that the cell writes of one commit put in a column, 0 when none
WrittenQuantity(calls, col) ==
    IF \E k \in 1..Len(calls) : calls[k][1] = col
    THEN (calls[CHOOSE k \in 1..Len(calls) : calls[k][1] = col][2]).v
    ELSE 0

\* the written quantities of the first k products times their unit prices
RECURSIVE WrittenAmount(_, _)
WrittenAmount(calls, k) ==
    IF k = 0 THEN 0
    ELSE WrittenQuantity(calls, ProductColumn(ProductCodes[k])) * PRODUCTS[ProductCodes[k]].price
         + WrittenAmount(calls, k - 1)

\* C27: the quantities of a persisted order agree with its total: the quantity
\* written to the column of every product is the sum of the quantities of all
\* entries of that product in the items of the order, and the written quantities
\* times the unit prices add up to the total amount of the order.
C27_QuantitiesAgreeWithTotal ==
    \A u \in Users :
        (Persisted(u) /\ saved[u] # None /\ saved[u][1].success) =>
            /\ \A code \in CodeSet :
                  WrittenQuantity(saved[u][1].calls, ProductColumn(code))
                      = SkuQuantity(confirming[u][1].items, code)
            /\ WrittenAmount(saved[u][1].calls, Len(ProductCodes))
                  = confirming[u][1].total_amount

\* C27: "1 P-CHZ 2 P-CHZ" gives three entries of P-CHZ, 1, 2 and 2, and a total of
\* five pouches; the row holds the quantity of the last entry
C27_LastEntryWritten ==
    /\ Persisted("u1")
    /\ Len(confirming["u1"][1].items) = 3
    /\ SkuQuantity(confirming["u1"][1].items, <<"P", "-", "C", "H", "Z">>) = 5
    /\ confirming["u1"][1].total_amount = 5 * PouchPrice
    /\ CellAt(sheet, saved["u1"][1].row, ColN) = <<"2">>

\* ---- C28 ----
\* phrases of the discount and the shipping rule that start with a number
NumberedPhrases == {<<" ", "1", "5", "%", " ", "o", "f", "f">>, <<" ", "5", "0", " ", "s", "f">>}
\* the message is m followed by the phrase
Appended(message, m, phrase) == message = m \o phrase

\* C28: a number of a discount or shipping phrase is never taken as a quantity:
\* for a message M with product codes, the extractor finds in M followed by
\* "15% off" or "50 sf" the items and the total amount that it finds in M alone.
C28_PhraseLeavesItems ==
    \A u \in Users :
        (Parsed(u) /\ ~FromExternal(order[u][1])) =>
            \A phrase \in NumberedPhrases :
                \A n \in 1..Len(handled[u][1].message) :
                    LET m == SubSeq(handled[u][1].message, 1, n)
                    IN  (Appended(handled[u][1].message, m, phrase) /\ BasicItems(m) # <<>>) =>
                            /\ order[u][1].items = BasicItems(m)
                            /\ order[u][1].total_amount = BasicParse(m).total_amount

\* C28: in "2 P-CHZ 15% off" the 15 of the discount became a second entry of
\* fifteen pouches, and the total is that of seventeen
C28_DiscountNumberTaken ==
    /\ Parsed("u1")
    /\ ~FromExternal(order["u1"][1])
    /\ handled["u1"][1].message = <<"2", " ", "P", "-", "C", "H", "Z", " ", "1", "5", "%", " ", "o", "f", "f">>
    /\ Len(BasicItems(<<"2", " ", "P", "-", "C", "H", "Z">>)) = 1
    /\ Len(order["u1"][1].items) = 2
    /\ HasItem(order["u1"][1].items, <<"P", "-", "C", "H", "Z">>, 15)
    /\ order["u1"][1].total_amount = 17 * PouchPrice
    /\ order["u1"][1].discount_percentage = Some(15)

\* C28: in "P-CHZ 2 50 sf" the quantity follows the code and the 50 of the
\* shipping fee is not taken
C28_ShippingNumberLeft ==
    /\ Parsed("u1")
    /\ ~FromExternal(order["u1"][1])
    /\ handled["u1"][1].message = <<"P", "-", "C", "H", "Z", " ", "2", " ", "5", "0", " ", "s", "f">>
    /\ order["u1"][1].items = BasicItems(<<"P", "-", "C", "H", "Z", " ", "2">>)
    /\ order["u1"][1].shipping_fee = Some(50)

\* ---- C29 ----
\* the order that the summary of the first message displays
FirstDraft == ParseOrderWithClaude(FALSE, FirstMessage, NoCall)
\* the second message of u has been answered
SecondAnswered(u) == handled[u] # None /\ backlog[u] = <<>> /\ inbox[u] = None
\* the second message drafted an order
SecondDrafted(u) == SecondAnswered(u) /\ order[u][1].items # <<>>
\* the summaries that u has been shown
Shown(u) == IF handled[u] = None THEN 0 ELSE IF SecondDrafted(u) THEN 2 ELSE 1
\* no button of u was pressed yet: the summary of the first message has its buttons
FirstLive(u) == keyboards[u] > 0 /\ keyboards[u] = Shown(u)

\* C29: the buttons of a summary act on the order it displays: a Confirm on the
\* summary of the first message, pressed while it has its buttons, takes up the
\* order of the first message, also when a second message was answered in between;
\* a Cancel on it leaves the order that the second message drafted pending.  The
\* callback data of a button names the chat and not the message, so a press on
\* the first summary is the same step as a press on the second.
C29_ConfirmWritesDisplayed ==
    [][\A u \in Users :
          /\ (ConfirmPressed(u) /\ FirstLive(u)) => confirming'[u] = Some(FirstDraft)
          /\ (CancelPressed(u) /\ FirstLive(u) /\ SecondDrafted(u)) => pending'[u] = order[u]]_vars

\* C29: after "2 P-CHZ qc" and "1 2L-OG for al" the first press of Confirm went
\* through, and the row holds Al's tub, not the two pouches; the summary that is
\* left finds nothing pending
C29_LatestOrderWritten ==
    /\ Shown("u1") = 2
    /\ keyboards["u1"] = 1
    /\ Persisted("u1")
    /\ confirming["u1"] # Some(FirstDraft)
    /\ CellAt(sheet, saved["u1"][1].row, ColD) = <<"A", "l">>
    /\ CellAt(sheet, saved["u1"][1].row, ColN) = <<>>
    /\ pending["u1"] = None

\* C29: a second message without products leaves the first order in the slot,
\* and Confirm on its summary writes it
C29_ParseFailedKeepsFirst ==
    /\ SecondAnswered("u1")
    /\ handled["u1"][1].message = <<"h", "e", "l", "l", "o", " ", "p", "o">>
    /\ Persisted("u1")
    /\ confirming["u1"] = Some(FirstDraft)
    /\ CellAt(sheet, saved["u1"][1].row, ColN) = <<"2">>

\* ---- C30 ----
\* the cell writes of a commit of the order o
WritesOf(o) == CellWrites(BuildUpdates(o, CHOOSE clock \in Clocks : TRUE))
\* the name that a commit of o writes to column D
NameWritten(o) == CellText((WritesOf(o)[CHOOSE k \in 1..Len(WritesOf(o)) : WritesOf(o)[k][1] = ColD])[2])
RowsOf(grid) == {rc[1] : rc \in DOMAIN grid} \ {1}
\* the rows of the grid in which a commit of o left the name, and those that hold
\* every cell of o
RowsNaming(grid, o) == {r \in RowsOf(grid) : CellAt(grid, r, ColD) = NameWritten(o)}
RowsHolding(grid, o) == {r \in RowsOf(grid) : RowHolds(grid, r, WritesOf(o))}
\* the order of the second message is the only draft with its name
SecondAlone(u) == SecondDrafted(u) /\ NameWritten(order[u][1]) # NameWritten(FirstDraft)

====
